---- MODULE Spec2Model ----
(***************************************************************************)
(* scraper_cpf: the detail-enrichment worker (src/enrich/index.ts and its  *)
(* earlier bounded variant) and the list extractor (src/extract/index.ts   *)
(* and its earlier offset-pagination variant) over one relational store of *)
(* Training and TrainingCenter rows.                                       *)
(*                                                                         *)
(* Encoding: a row id is its index in the table; 0 stands for NULL in a    *)
(* timestamp, url or payload column; the wall clock is a counter that is   *)
(* advanced once per worker iteration, so every new Date() of one attempt  *)
(* is later than every timestamp written before it.                        *)
(***************************************************************************)
EXTENDS Integers, Sequences, FiniteSets, TLC

VARIABLES
  trainings,   \* Training table (committed rows), id = index
  centers,     \* TrainingCenter table (committed rows), id = index
  clock,       \* wall clock
  variant,     \* "drain": src/enrich/index.ts, "batch": the bounded variant
  pc,          \* position of runEnrichment
  cur,         \* training.id returned by findFirst, 0 when none
  result,      \* path taken by processTraining for cur
  processed,   \* runEnrichment: processed
  success,     \* runEnrichment: success
  lastDelay,   \* the last humanDelay taken by the loop: "none", "normal", "penalty"
  pre,         \* the Training row of cur as it was when it was selected
  hist,        \* history of the run: for each training the number of its last attempt
               \* (prevNo: the one before, for cur), the trainings navigated to, those
               \* whose transaction failed, those the fallback marked, those without URL
  xvariant,    \* "reveal": src/extract/index.ts, "offset": the offset-pagination variant
  xpc,         \* position of runExtraction / processQuery
  qi,          \* index of the query being processed
  shown,       \* reveal: number of result cards in the DOM
  prevCount,   \* reveal: prevCount
  roundIndex,  \* batchIndex (reveal) / pageIndex (offset)
  processedKeys, \* processedKeys
  totalSaved,  \* totalSaved
  batch,       \* the raw items of the round being processed
  nextItem,    \* index in batch of the next raw item of the for loop
  xhist,       \* history of the query run: keys handed to persistListItem (in order),
               \* card positions handed to the dedup step, why the loop ended
  args,        \* the arguments of the helper function called last
  ret,         \* what that call returned
  res,         \* runEnrichment / runExtraction as holders of resources: position,
               \* browser, open pages, store connection, pending error
  sync         \* syncOpenData: position, centers left, requests of the lookup

svars == <<trainings, centers, clock>>

wvars == <<variant, pc, cur, result, processed, success, lastDelay, pre, hist>>

xvars == <<xvariant, xpc, qi, shown, prevCount, roundIndex, processedKeys, totalSaved,
           batch, nextItem, xhist>>

yvars == <<args, ret, res, sync>>

vars == <<svars, wvars, xvars, yvars>>

----------------------------------------------------------------------------
(* Bounds of the model *)

\* rows in the Training table at the start of a worker run
NumTrainings == 3
\* rows in the TrainingCenter table at the start of a worker run: at least two
\* trainings share a center
NumCenters == NumTrainings - 1
\* attempts explored in one run of the unbounded worker
MaxAttempts == 4
\* appConfig.detailBatchSize (DETAIL_BATCH_SIZE) as configured for the bounded worker
DetailBatchSize == 3

TrainingIds == 1..Len(trainings)

----------------------------------------------------------------------------
(* Store rows *)

\* a Training as created by the list sync: never detail-scraped
NewTraining(url, centerId, pending) ==
  [ detailUrl |-> url, centerId |-> centerId, needsDetail |-> pending,
    lastDetailScrapedAt |-> 0, price |-> "list", detailPageData |-> 0,
    title |-> 0, summary |-> 0,
    listPageData |-> [ id |-> 0, href |-> 0, cardId |-> 0, title |-> 0, summary |-> 0,
                       centerName |-> 0, centerExt |-> 0, city |-> 0 ],
    lastListScrapedAt |-> 0 ]

\* a TrainingCenter as created by the list sync
NewCenter(name, normalizedName, externalId, city) ==
  [ name |-> name, normalizedName |-> normalizedName, externalId |-> externalId,
    city |-> city, contact |-> "none", website |-> "none", lastDetailScrapedAt |-> 0,
    siren |-> 0, declaredTrainers |-> 0 ]

\* what parseDetailPage returns: which fields the page yielded
ParsedDetailData == [ price : BOOLEAN, contact : BOOLEAN, website : BOOLEAN ]

\* which database calls of one processTraining fail when they are reached
\* (a call that is not reached cannot fail: the combinations that differ only
\* in such a call are left out)
DbFaults ==
  { f \in [ trainingUpdate : BOOLEAN, centerUpdate : BOOLEAN,
            centerRetry : BOOLEAN, commit : BOOLEAN ] :
      /\ f.trainingUpdate => ~f.centerUpdate /\ ~f.commit
      /\ f.centerRetry => f.centerUpdate /\ ~f.commit }

----------------------------------------------------------------------------
(* runEnrichment: selection *)

\* mutant: NULL sorts after every date (the order of another database engine)
tsBeforeNullsLast(x, y) == IF y = 0 THEN x # 0 ELSE (x # 0 /\ x < y)

\* ORDER BY lastDetailScrapedAt ASC on MySQL: NULL (0) sorts before every date
tsBefore(x, y) == IF x = 0 THEN y # 0 ELSE (y # 0 /\ x < y)

\* orderBy: [{ lastDetailScrapedAt: "asc" }, { id: "asc" }]
orderBefore(trs, i, j) ==
  \/ tsBefore(trs[i].lastDetailScrapedAt, trs[j].lastDetailScrapedAt)
  \/ /\ trs[i].lastDetailScrapedAt = trs[j].lastDetailScrapedAt
     /\ i < j

\* where: { needsDetail: true }
pendingIds(trs) == { i \in 1..Len(trs) : trs[i].needsDetail }

\* prisma.training.findFirst: the id of the first row in that order, 0 when none
findFirst(trs) ==
  IF pendingIds(trs) = {} THEN 0
  ELSE CHOOSE i \in pendingIds(trs) :
         \A j \in pendingIds(trs) \ {i} : orderBefore(trs, i, j)

\* mutant: off by one, the loop runs once more than detailBatchSize
loopContinuesInclusive(v, n) == IF v = "batch" THEN n <= DetailBatchSize ELSE TRUE

\* appConfig.detailMaxRetries (DETAIL_MAX_RETRIES)
DetailMaxRetries == 2

\* mutant: the loop gives up once detailMaxRetries attempts were made
loopContinuesWithinRetries(v, n) == n < DetailMaxRetries

\* the loop condition: while (true) / while (processed < appConfig.detailBatchSize)
loopContinues(v, n) == IF v = "batch" THEN n < DetailBatchSize ELSE TRUE

----------------------------------------------------------------------------
(* processTraining: the writes *)

\* data of tx.training.update: a field parsed as undefined leaves its column as it is
detailData(row, parsed, now) ==
  [ row EXCEPT !.price = IF parsed.price THEN "detail" ELSE @,
               !.detailPageData = now,
               !.needsDetail = FALSE,
               !.lastDetailScrapedAt = now ]

\* centerUpdates of updateCenterInfo, with or without the website
centerData(row, parsed, now, withWebsite) ==
  [ row EXCEPT !.lastDetailScrapedAt = now,
               !.contact = IF parsed.contact THEN "detail" ELSE @,
               !.website = IF withWebsite /\ parsed.website THEN "detail" ELSE @ ]

\* updateCenterInfo: prisma.trainingCenter.update on the global client, so the
\* write is committed at once; "drain" retries once without the website
updateCenterInfo(cs, centerId, parsed, now, flt, v) ==
  IF ~flt.centerUpdate
    THEN [ centers |-> [cs EXCEPT ![centerId] = centerData(@, parsed, now, TRUE)],
           threw |-> FALSE ]
  ELSE IF v = "drain" /\ parsed.website /\ ~flt.centerRetry
    THEN [ centers |-> [cs EXCEPT ![centerId] = centerData(@, parsed, now, FALSE)],
           threw |-> FALSE ]
  ELSE [ centers |-> cs, threw |-> TRUE ]

\* mutant: the Training write goes through the global client and survives a
\* failure of the center update or of the commit
enrichNoRollback(trs, cs, id, parsed, now, flt, v) ==
  IF flt.trainingUpdate
    THEN [ trainings |-> trs, centers |-> cs, ok |-> FALSE ]
  ELSE
    LET uc == updateCenterInfo(cs, trs[id].centerId, parsed, now, flt, v) IN
    [ trainings |-> [trs EXCEPT ![id] = detailData(@, parsed, now)],
      centers |-> uc.centers, ok |-> ~(uc.threw \/ flt.commit) ]

\* prisma.$transaction(async (tx) => { tx.training.update; updateCenterInfo }):
\* the Training write is staged in the transaction and reaches the table at commit
enrichTransaction(trs, cs, id, parsed, now, flt, v) ==
  IF flt.trainingUpdate
    THEN [ trainings |-> trs, centers |-> cs, ok |-> FALSE ]
  ELSE
    LET uc == updateCenterInfo(cs, trs[id].centerId, parsed, now, flt, v) IN
    IF uc.threw \/ flt.commit
      THEN [ trainings |-> trs, centers |-> uc.centers, ok |-> FALSE ]
    ELSE [ trainings |-> [trs EXCEPT ![id] = detailData(@, parsed, now)],
           centers |-> uc.centers, ok |-> TRUE ]

\* mutant: the no-URL branch returns without the update
markNoUrlForgotten(trs, id) == trs

\* the no-URL branch: data: { needsDetail: false }
markNoUrl(trs, id) == [trs EXCEPT ![id].needsDetail = FALSE]

\* the fallback of the catch block: needsDetail false and a new timestamp
fallbackMark(trs, id, now) ==
  [trs EXCEPT ![id].needsDetail = FALSE, ![id].lastDetailScrapedAt = now]

\* mutant: the timestamp is not bumped after a false result
bumpSkipped(trs, id, now) == trs

\* mutant: the bump also marks the training as done
bumpMarksDone(trs, id, now) ==
  [trs EXCEPT ![id].lastDetailScrapedAt = now, ![id].needsDetail = FALSE]

\* runEnrichment after a false result: data: { lastDetailScrapedAt: new Date() }
bumpTimestamp(trs, id, now) == [trs EXCEPT ![id].lastDetailScrapedAt = now]

----------------------------------------------------------------------------
(* The worker's steps *)

InitStore ==
  /\ trainings \in
       { [ i \in 1..NumTrainings |->
             NewTraining(IF i \in withUrl THEN i ELSE 0,
                         ((i - 1) % NumCenters) + 1, TRUE) ] :
           withUrl \in SUBSET (1..NumTrainings) }
  /\ centers = [ c \in 1..NumCenters |-> NewCenter(c, c, 0, 0) ]
  /\ clock = 0

InitWorker ==
  /\ variant \in {"drain", "batch"}
  /\ pc = "select"
  /\ cur = 0
  /\ result = "none"
  /\ processed = 0
  /\ success = 0
  /\ lastDelay = "none"
  /\ pre = NewTraining(0, 1, FALSE)
  /\ hist = [ attemptNo |-> [ i \in 1..NumTrainings |-> 0 ], prevNo |-> 0,
              navigated |-> {}, txFailed |-> {}, marked |-> {}, noUrl |-> {},
              cause |-> "none" ]

\* loop head: the loop condition, then findFirst
SelectTraining ==
  /\ pc = "select"
  /\ processed < MaxAttempts
  /\ IF loopContinues(variant, processed) /\ findFirst(trainings) # 0
       THEN /\ cur' = findFirst(trainings)
            /\ pre' = trainings[findFirst(trainings)]
            /\ clock' = clock + 1
            /\ hist' = [hist EXCEPT !.attemptNo[findFirst(trainings)] = processed + 1,
                                    !.prevNo = hist.attemptNo[findFirst(trainings)]]
            /\ pc' = "process"
       ELSE /\ pc' = "done"
            /\ UNCHANGED <<cur, pre, clock, hist>>
  /\ UNCHANGED <<trainings, centers, variant, result, processed, success, lastDelay>>
  /\ UNCHANGED <<xvars, yvars>>

\* processTraining, training.detailUrl is null: no navigation
SkipNoUrl ==
  /\ pc = "process"
  /\ trainings[cur].detailUrl = 0
  /\ \E dbOk \in BOOLEAN :
       IF dbOk
         THEN /\ trainings' = markNoUrl(trainings, cur)
              /\ result' = "noUrl"
              /\ hist' = [hist EXCEPT !.noUrl = @ \cup {cur}]
              /\ pc' = "finish"
         ELSE /\ pc' = "aborted"
              /\ hist' = [hist EXCEPT !.cause = "noUrlUpdate"]
              /\ UNCHANGED <<trainings, result>>
  /\ UNCHANGED <<centers, clock, variant, cur, processed, success, lastDelay, pre>>
  /\ UNCHANGED <<xvars, yvars>>

\* processTraining, page.goto or parseDetailPage throws
VisitFails ==
  /\ pc = "process"
  /\ trainings[cur].detailUrl # 0
  /\ result' = "visitFailed"
  /\ hist' = [hist EXCEPT !.navigated = @ \cup {cur}]
  /\ pc' = "finish"
  /\ UNCHANGED <<trainings, centers, clock, variant, cur, processed, success,
                 lastDelay, pre>>
  /\ UNCHANGED <<xvars, yvars>>

\* processTraining, the page is parsed and the transaction runs
EnrichTransaction ==
  /\ pc = "process"
  /\ trainings[cur].detailUrl # 0
  /\ \E parsed \in ParsedDetailData, flt \in DbFaults :
       LET r == enrichTransaction(trainings, centers, cur, parsed, clock, flt, variant) IN
       /\ trainings' = r.trainings
       /\ centers' = r.centers
       /\ IF r.ok
            THEN /\ result' = "enriched"
                 /\ pc' = "finish"
                 /\ hist' = [hist EXCEPT !.navigated = @ \cup {cur}]
            ELSE /\ result' = "txFailed"
                 /\ pc' = "txfailed"
                 /\ hist' = [hist EXCEPT !.navigated = @ \cup {cur},
                                         !.txFailed = @ \cup {cur}]
  /\ UNCHANGED <<clock, variant, cur, processed, success, lastDelay, pre>>
  /\ UNCHANGED <<xvars, yvars>>

\* "drain": the catch block of processTraining
FallbackMark ==
  /\ pc = "txfailed"
  /\ variant = "drain"
  /\ \E dbOk \in BOOLEAN :
       IF dbOk
         THEN /\ trainings' = fallbackMark(trainings, cur, clock)
              /\ result' = "marked"
              /\ hist' = [hist EXCEPT !.marked = @ \cup {cur}]
         ELSE /\ result' = "retained"
              /\ UNCHANGED <<trainings, hist>>
  /\ pc' = "finish"
  /\ UNCHANGED <<centers, clock, variant, cur, processed, success, lastDelay, pre>>
  /\ UNCHANGED <<xvars, yvars>>

\* "batch": no catch block, the error leaves processTraining and the loop
TxErrorPropagates ==
  /\ pc = "txfailed"
  /\ variant = "batch"
  /\ pc' = "aborted"
  /\ hist' = [hist EXCEPT !.cause = "transaction"]
  /\ UNCHANGED <<trainings, centers, clock, variant, cur, result, processed, success,
                 lastDelay, pre>>
  /\ UNCHANGED <<xvars, yvars>>

\* runEnrichment after processTraining returned true
FinishSuccess ==
  /\ pc = "finish"
  /\ result = "enriched"
  /\ processed' = processed + 1
  /\ success' = success + 1
  /\ lastDelay' = "normal"
  /\ pc' = "select"
  /\ UNCHANGED <<trainings, centers, clock, variant, cur, result, pre, hist>>
  /\ UNCHANGED <<xvars, yvars>>

\* runEnrichment after processTraining returned false
FinishFailure ==
  /\ pc = "finish"
  /\ result # "enriched"
  /\ processed' = processed + 1
  /\ \E dbOk \in BOOLEAN :
       IF dbOk
         THEN /\ trainings' = bumpTimestamp(trainings, cur, clock)
              /\ lastDelay' = "penalty"
              /\ pc' = "select"
              /\ UNCHANGED hist
         ELSE /\ pc' = "aborted"
              /\ hist' = [hist EXCEPT !.cause = "timestampUpdate"]
              /\ UNCHANGED <<trainings, lastDelay>>
  /\ UNCHANGED <<centers, clock, variant, cur, result, success, pre>>
  /\ UNCHANGED <<xvars, yvars>>

WorkerNext ==
  \/ SelectTraining
  \/ SkipNoUrl
  \/ VisitFails
  \/ EnrichTransaction
  \/ FallbackMark
  \/ TxErrorPropagates
  \/ FinishSuccess
  \/ FinishFailure

----------------------------------------------------------------------------
(* List extractor: raw items and their normalization *)

\* results the site holds for one query
MaxResults == 12
\* appConfig.maxPagesPerQuery (MAX_PAGES_PER_QUERY) as configured
MaxPagesPerQuery == 4
\* the queries handed to runExtraction (the first two of the configured ones)
searchQueries == <<"anglais-distance", "bilan-competences-distance">>
\* extractNewBatch(page, prevCount, 10)
BatchSize == 10
\* perPage: nombreOccurences of the query payload, else appConfig.itemsPerPage
PerPage == 3

\* Strings are numbered: equal numbers are equal strings, 0 is an absent field.
EmptyItem ==
  [ id |-> 0, href |-> 0, cardId |-> 0, title |-> 0, summary |-> 0, centerName |-> 0,
    centerExt |-> 0, city |-> 0 ]

\* The listings of the site. Listings 1 and 2 link to the same detail path with
\* different query strings, under two centers; 3 is a listing of the center of 1
\* under a name that differs by its legal form only; 4 has no link; 5 has no
\* title and the id of 1; 6 repeats the link of 3 under a center name without
\* letter or digit; 7 has no identifier at all.
Catalogue ==
  << [ id |-> 11, href |-> 21, cardId |-> 31, title |-> 41, summary |-> 96,
       centerName |-> 51, centerExt |-> 0, city |-> 71 ],
     [ id |-> 12, href |-> 22, cardId |-> 32, title |-> 41, summary |-> 0,
       centerName |-> 53, centerExt |-> 0, city |-> 0 ],
     [ id |-> 0, href |-> 23, cardId |-> 33, title |-> 42, summary |-> 97,
       centerName |-> 52, centerExt |-> 0, city |-> 71 ],
     [ id |-> 0, href |-> 0, cardId |-> 34, title |-> 43, summary |-> 0,
       centerName |-> 53, centerExt |-> 61, city |-> 0 ],
     [ id |-> 11, href |-> 24, cardId |-> 35, title |-> 0, summary |-> 96,
       centerName |-> 53, centerExt |-> 61, city |-> 0 ],
     [ id |-> 0, href |-> 23, cardId |-> 33, title |-> 42, summary |-> 0,
       centerName |-> 54, centerExt |-> 0, city |-> 0 ],
     [ id |-> 0, href |-> 0, cardId |-> 0, title |-> 44, summary |-> 0,
       centerName |-> 51, centerExt |-> 0, city |-> 0 ] >>

\* the i-th result of query q
resultAt(q, i) == Catalogue[((i + q - 2) % Len(Catalogue)) + 1]

\* mapAllCardsToItems: what one result card yields (title, detailUrl, detailHref,
\* trainingCardId, centerName and texts; no id, no organisme object)
cardItem(e) == [ e EXCEPT !.id = 0, !.centerExt = 0, !.city = 0 ]

\* an item of a JSON search response: no DOM id
apiItem(e) == [ e EXCEPT !.cardId = 0 ]

\* JSON.stringify(item): one string per item content
jsonKey(item) == <<0, item>>

\* a key that is the trimmed value of a field
fieldKey(str) == <<str, EmptyItem>>

\* identifyItemKey: id, idFormation, ..., codeFormation, then detailUrl, url,
\* urlFiche, then (reveal only) trainingCardId, else the serialized item
identifyItemKey(item, xv) ==
  IF item.id # 0 THEN fieldKey(item.id)
  ELSE IF item.href # 0 THEN fieldKey(item.href)
  ELSE IF xv = "reveal" /\ item.cardId # 0 THEN fieldKey(item.cardId)
  ELSE jsonKey(item)

\* extractDetailPath: the path after formation/recherche/ or formation/fiche/
\* without the query string; undefined when the link is not under formation/
extractDetailPath(href) ==
  CASE href = 21 -> 91
    [] href = 22 -> 91
    [] href = 23 -> 92
    [] OTHER -> 0

\* buildDetailUrl / `${DETAIL_BASE_URL}${trainingId}`: the base of the variant
\* followed by the path
buildDetailUrl(path, xv) ==
  IF path = 0 THEN 0 ELSE IF xv = "reveal" THEN 2000 + path ELSE 3000 + path

\* first defined value (pickString over the candidates)
pickFirst(cands) ==
  IF \E i \in 1..Len(cands) : cands[i] # 0
    THEN cands[CHOOSE i \in 1..Len(cands) :
                 cands[i] # 0 /\ \A j \in 1..(i - 1) : cands[j] = 0]
    ELSE 0

\* normalizeListItem: the detail URL
normalizedDetailUrl(item, xv) ==
  IF xv = "reveal"
    THEN LET trainingId == pickFirst(<<item.id, item.cardId>>)
             detailPath == pickFirst(<<extractDetailPath(item.href), item.cardId,
                                       trainingId>>)
         IN  pickFirst(<<buildDetailUrl(detailPath, xv), item.href>>)
    ELSE pickFirst(<<item.href, buildDetailUrl(item.id, xv)>>)

\* normalizeListItem, with listPageData = raw
normalizeListItem(item, xv) ==
  [ title |-> item.title, summary |-> item.summary,
    detailUrl |-> normalizedDetailUrl(item, xv),
    centerName |-> item.centerName, centerExternalId |-> item.centerExt,
    centerCity |-> item.city, listPageData |-> item ]

\* normalizeCenterName: legal-form tokens, accents and case removed; empty when
\* the name holds no letter or digit
normalizeCenterName(name) ==
  CASE name = 51 -> 81
    [] name = 52 -> 81
    [] name = 53 -> 82
    [] OTHER -> 0

----------------------------------------------------------------------------
(* Persister *)

\* the first of the matching rows, 0 when none matches (findFirst / findUnique)
firstRow(ids) ==
  IF ids = {} THEN 0 ELSE CHOOSE i \in ids : \A j \in ids : i <= j

\* ensureCenter: [centers, id], id = 0 when it returns null
ensureCenter(cs, n, xv) ==
  LET name == n.centerName
      norm == IF xv = "reveal" THEN normalizeCenterName(name) ELSE 0
      byExt == {i \in 1..Len(cs) : cs[i].externalId = n.centerExternalId}
      byNorm == {i \in 1..Len(cs) : cs[i].normalizedName = norm}
      byName == {i \in 1..Len(cs) :
                   cs[i].name = name /\ (n.centerCity = 0 \/ cs[i].city = n.centerCity)}
      found == IF n.centerExternalId # 0 THEN firstRow(byExt)
               ELSE IF xv = "reveal" THEN firstRow(byNorm)
               ELSE firstRow(byName)
      created == NewCenter(name, norm, n.centerExternalId, n.centerCity)
      updated(row) == [ row EXCEPT !.name = name,
                                   !.normalizedName = IF xv = "reveal" THEN norm ELSE @,
                                   !.city = IF n.centerCity # 0 THEN n.centerCity ELSE @ ]
  IN
  IF name = 0 \/ (xv = "reveal" /\ norm = 0)
    THEN [ centers |-> cs, id |-> 0 ]
  ELSE IF found # 0
    THEN [ centers |-> [cs EXCEPT ![found] = updated(@)], id |-> found ]
  ELSE [ centers |-> Append(cs, created), id |-> Len(cs) + 1 ]

\* mutant: the lookup never finds the row
findByDetailUrlMisses(trs, url) == 0

\* prisma.training.findUnique({ where: { detailUrl } }) / the where of the upsert
findByDetailUrl(trs, url) ==
  firstRow({i \in 1..Len(trs) : trs[i].detailUrl = url})

\* commonData / the update and create data of the upsert; a field whose value
\* is undefined (summary, modality, texts) is left out of the write
listData(row, n, centerId, now) ==
  [ row EXCEPT !.centerId = centerId, !.needsDetail = TRUE, !.price = "list",
               !.title = n.title,
               !.summary = IF n.summary # 0 THEN n.summary ELSE @,
               !.listPageData = n.listPageData, !.lastListScrapedAt = now ]

\* persistListItem; flt names the database call that fails: "none", "center"
\* (ensureCenter), "training" (the Training query or write)
persistListItem(trs, cs, n, now, flt, xv) ==
  LET ec == ensureCenter(cs, n, xv)
      existing == findByDetailUrl(trs, n.detailUrl)
      centerHasTraining ==
        \E i \in 1..Len(trs) : trs[i].centerId = ec.id
  IN
  IF n.title = 0 \/ n.detailUrl = 0
    THEN [ trainings |-> trs, centers |-> cs, saved |-> FALSE, threw |-> FALSE ]
  ELSE IF flt = "center"
    THEN [ trainings |-> trs, centers |-> cs, saved |-> FALSE, threw |-> TRUE ]
  ELSE IF ec.id = 0
    THEN [ trainings |-> trs, centers |-> cs, saved |-> FALSE, threw |-> FALSE ]
  ELSE IF flt = "training"
    THEN [ trainings |-> trs, centers |-> ec.centers, saved |-> FALSE, threw |-> TRUE ]
  ELSE IF existing # 0
    THEN [ trainings |-> [trs EXCEPT ![existing] = listData(@, n, ec.id, now)],
           centers |-> ec.centers, saved |-> TRUE, threw |-> FALSE ]
  ELSE IF xv = "reveal" /\ centerHasTraining
    THEN [ trainings |-> trs, centers |-> ec.centers, saved |-> FALSE, threw |-> FALSE ]
  ELSE [ trainings |->
           Append(trs, listData(NewTraining(n.detailUrl, ec.id, TRUE), n, ec.id, now)),
         centers |-> ec.centers, saved |-> TRUE, threw |-> FALSE ]

----------------------------------------------------------------------------
(* List extractor: runExtraction and processQuery *)

\* database calls that may fail during one extraction (keeps the state space finite)
MaxFaults == 1

\* mutant: one more round than the cap
capReachedLate(n) == n > MaxPagesPerQuery

\* the negation of the loop condition, index < appConfig.maxPagesPerQuery
capReached(n) == n >= MaxPagesPerQuery

\* mapAllCardsToItems: the cards of the result list, in display order
mapAllCardsToItems(q, n) == [i \in 1..n |-> cardItem(resultAt(q, i))]

\* mutant: the last batchSize cards of the list, whatever was taken before
extractLastCards(items, prev, batchSize) ==
  IF Len(items) <= prev
    THEN << >>
    ELSE SubSeq(items, IF Len(items) > batchSize THEN Len(items) - batchSize + 1 ELSE 1,
                Len(items))

\* extractNewBatch: the cards after the first prev ones, batchSize at most
extractNewBatch(items, prev, batchSize) ==
  IF Len(items) <= prev
    THEN << >>
    ELSE SubSeq(items, prev + 1,
                IF prev + batchSize < Len(items) THEN prev + batchSize ELSE Len(items))

\* clickLoadMoreIfPresent: false without the button; with it, true when the
\* number of cards exceeds prev before the timeout
clickLoadMoreIfPresent(present, cards, prev) == present /\ cards > prev

\* the response handler of collectPageData: the first item of each key is kept
RECURSIVE aggregate(_, _, _)
aggregate(items, xv, keys) ==
  IF items = << >>
    THEN << >>
    ELSE LET key == identifyItemKey(Head(items), xv) IN
         IF key \in keys
           THEN aggregate(Tail(items), xv, keys)
           ELSE <<Head(items)>> \o aggregate(Tail(items), xv, keys \cup {key})

\* collectPageData: the items of the responses to the page at offset, none when
\* the navigation fails before any response
collectPageData(q, offset, perPage, total, navOk) ==
  LET last == IF offset + perPage < total THEN offset + perPage ELSE total
      served == IF navOk /\ offset < total
                  THEN [i \in 1..(last - offset) |-> apiItem(resultAt(q, offset + i))]
                  ELSE << >>
  IN  aggregate(served, "offset", {})

\* mutant: a key is remembered only when its item was saved
rememberSavedKey(keys, key, saved) == IF saved THEN keys \cup {key} ELSE keys

\* processedKeys.add(key), done before the item is normalized and persisted
rememberKey(keys, key, saved) == keys \cup {key}

NoXHist ==
  [ persisted |-> << >>, failed |-> {}, skipped |-> {}, refreshed |-> {},
    handed |-> {}, reason |-> "none", faults |-> 0,
    fetches |-> 0, fresh |-> 0, stopAt |-> 0, delayed |-> TRUE, rushed |-> FALSE,
    firstRun |-> << >>,
    last |-> [ row |-> 0, grew |-> FALSE, at |-> 0, centerId |-> 0,
               item |-> normalizeListItem(EmptyItem, "reveal") ] ]

\* a round fetch (page.goto or the click on "show more"): it is rushed when no
\* delay was taken since the fetch before it
fetched(h) == [h EXCEPT !.rushed = @ \/ ~h.delayed, !.delayed = FALSE]

\* mutant: no pause
humanDelaySkipped(h) == h

\* humanDelay / page.waitForTimeout(randomBetween(minWaitMs, maxWaitMs))
humanDelay(h) == [h EXCEPT !.delayed = TRUE]

\* the fetch and the pause of clickLoadMoreIfPresent: no click without the
\* button, the pause only when the number of cards has grown
afterClick(h, present, clicked) ==
  IF ~present THEN h ELSE IF clicked THEN humanDelay(fetched(h)) ELSE fetched(h)

InitExtract ==
  /\ xvariant \in {"reveal", "offset"}
  /\ xpc = "start"
  /\ qi = 1
  /\ shown = 0
  /\ prevCount = 0
  /\ roundIndex = 0
  /\ processedKeys = {}
  /\ totalSaved = 0
  /\ batch = << >>
  /\ nextItem = 1
  /\ xhist = NoXHist

\* processQuery up to the loop: a fresh page, fresh processedKeys and counters;
\* reveal: goto, then waitForResults, which throws when no card shows up
StartQuery ==
  /\ xpc = "start"
  /\ \E n \in 0..MaxResults, sessionOk \in BOOLEAN :
       LET base == [NoXHist EXCEPT !.faults = xhist.faults,
                                   !.delayed = xhist.delayed,
                                   !.rushed = xhist.rushed]
       IN
       /\ ~sessionOk => n = 0
       /\ shown' = n
       /\ xpc' = IF ~sessionOk \/ (xvariant = "reveal" /\ n = 0) THEN "failed" ELSE "loop"
       /\ xhist' = IF ~sessionOk THEN [base EXCEPT !.reason = "session"]
                   ELSE IF xvariant = "offset" THEN base
                   ELSE IF n = 0 THEN [fetched(base) EXCEPT !.reason = "noResults"]
                   ELSE humanDelay(fetched(base))
  /\ prevCount' = 0
  /\ roundIndex' = 0
  /\ processedKeys' = {}
  /\ totalSaved' = 0
  /\ batch' = << >>
  /\ nextItem' = 1
  /\ UNCHANGED <<svars, wvars, yvars, xvariant, qi>>

\* reveal, loop head: extractNewBatch; when it is empty, a click and a second
\* extractNewBatch
ExtractBatch ==
  /\ xpc = "loop"
  /\ xvariant = "reveal"
  /\ clock' = clock + 1
  /\ IF capReached(roundIndex)
       THEN /\ xpc' = "queryEnd"
            /\ xhist' = [xhist EXCEPT !.reason = "cap"]
            /\ UNCHANGED <<shown, batch, nextItem>>
       ELSE LET rawNewItems ==
                  extractNewBatch(mapAllCardsToItems(qi, shown), prevCount, BatchSize)
            IN
            IF rawNewItems # << >>
              THEN /\ batch' = rawNewItems
                   /\ nextItem' = 1
                   /\ xpc' = "persist"
                   /\ xhist' = [xhist EXCEPT
                        !.handed = @ \cup (prevCount + 1)..(prevCount + Len(rawNewItems)),
                        !.fetches = @ + 1,
                        !.fresh = 0]
                   /\ UNCHANGED shown
              ELSE \E present \in BOOLEAN, grown \in 0..(MaxResults - shown) :
                     LET clicked == clickLoadMoreIfPresent(present, shown + grown, prevCount)
                         retriedNew ==
                           extractNewBatch(mapAllCardsToItems(qi, shown + grown),
                                           prevCount, BatchSize)
                     IN
                     /\ ~present => grown = 0
                     /\ shown' = shown + grown
                     /\ IF clicked /\ retriedNew # << >>
                          THEN /\ batch' = retriedNew
                               /\ nextItem' = 1
                               /\ xpc' = "persistRetry"
                               /\ xhist' = [afterClick(xhist, present, clicked) EXCEPT
                                    !.handed = @ \cup
                                      (prevCount + 1)..(prevCount + Len(retriedNew)),
                                    !.fetches = @ + 1,
                                    !.fresh = 0]
                          ELSE /\ xpc' = "queryEnd"
                               /\ xhist' = [afterClick(xhist, present, clicked) EXCEPT
                                    !.reason = "noButton"]
                               /\ UNCHANGED <<batch, nextItem>>
  /\ UNCHANGED <<trainings, centers, wvars, yvars, xvariant, qi, prevCount, roundIndex,
                 processedKeys, totalSaved>>

\* offset, loop head: the page at offset pageIndex * perPage
FetchPage ==
  /\ xpc = "loop"
  /\ xvariant = "offset"
  /\ clock' = clock + 1
  /\ IF capReached(roundIndex)
       THEN /\ xpc' = "queryEnd"
            /\ xhist' = [xhist EXCEPT !.reason = "cap"]
            /\ UNCHANGED <<batch, nextItem>>
       ELSE \E navOk \in BOOLEAN :
              LET items == collectPageData(qi, roundIndex * PerPage, PerPage, shown, navOk)
              IN
              IF items = << >>
                THEN /\ xpc' = "queryEnd"
                     /\ xhist' = [humanDelay(fetched(xhist)) EXCEPT
                          !.reason = "empty",
                          !.fetches = @ + 1,
                          !.fresh = 0,
                          !.stopAt = IF @ = 0 THEN xhist.fetches + 1 ELSE @]
                     /\ UNCHANGED <<batch, nextItem>>
                ELSE /\ batch' = items
                     /\ nextItem' = 1
                     /\ xpc' = "persist"
                     /\ xhist' = [humanDelay(fetched(xhist)) EXCEPT
                          !.handed = @ \cup
                            (roundIndex * PerPage + 1)..(roundIndex * PerPage + Len(items)),
                          !.fetches = @ + 1,
                          !.fresh = 0]
  /\ UNCHANGED <<trainings, centers, wvars, yvars, xvariant, qi, shown, prevCount, roundIndex,
                 processedKeys, totalSaved>>

\* one turn of the for loop over the harvested items
PersistItem ==
  /\ xpc \in {"persist", "persistRetry"}
  /\ nextItem <= Len(batch)
  /\ nextItem' = nextItem + 1
  /\ LET raw == batch[nextItem]
         key == identifyItemKey(raw, xvariant)
     IN
     IF key \in processedKeys
       THEN /\ xhist' = [xhist EXCEPT !.skipped = @ \cup {key}]
            /\ UNCHANGED <<svars, processedKeys, totalSaved>>
       ELSE \E flt \in {"none", "center", "training"} :
              LET normalized == normalizeListItem(raw, xvariant)
                  out == persistListItem(trainings, centers, normalized, clock, flt,
                                         xvariant)
                  existed == findByDetailUrl(trainings, normalized.detailUrl) # 0
                  counted == IF xvariant = "reveal" THEN out.saved ELSE ~out.threw
              IN
              /\ flt # "none" => out.threw /\ xhist.faults < MaxFaults
              /\ processedKeys' = rememberKey(processedKeys, key, out.saved)
              /\ trainings' = out.trainings
              /\ centers' = out.centers
              /\ totalSaved' = IF counted THEN totalSaved + 1 ELSE totalSaved
              /\ xhist' = [xhist EXCEPT
                   !.persisted = Append(@, key),
                   !.fresh = @ + 1,
                   !.failed = IF out.threw THEN @ \cup {key} ELSE @,
                   !.refreshed = IF out.saved /\ existed
                                   THEN @ \cup {normalized.detailUrl} ELSE @,
                   !.last = IF out.saved /\ existed
                              THEN [ row |-> findByDetailUrl(trainings, normalized.detailUrl),
                                     grew |-> Len(out.trainings) # Len(trainings),
                                     at |-> clock,
                                     centerId |-> ensureCenter(centers, normalized,
                                                               xvariant).id,
                                     item |-> normalized ]
                              ELSE @,
                   !.faults = IF out.threw THEN @ + 1 ELSE @]
              /\ UNCHANGED clock
  /\ UNCHANGED <<wvars, yvars, xvariant, xpc, qi, shown, prevCount, roundIndex, batch>>

\* reveal, after the for loop: the counters, then clickLoadMoreIfPresent (not
\* in the branch of the second extractNewBatch, which continues directly)
EndBatch ==
  /\ xpc \in {"persist", "persistRetry"}
  /\ xvariant = "reveal"
  /\ nextItem > Len(batch)
  /\ prevCount' = prevCount + Len(batch)
  /\ roundIndex' = roundIndex + 1
  /\ IF xpc = "persistRetry"
       THEN /\ xpc' = "loop"
            /\ UNCHANGED <<shown, xhist>>
       ELSE \E present \in BOOLEAN, grown \in 0..(MaxResults - shown) :
              /\ ~present => grown = 0
              /\ shown' = shown + grown
              /\ IF clickLoadMoreIfPresent(present, shown + grown, prevCount + Len(batch))
                   THEN /\ xpc' = "loop"
                        /\ xhist' = afterClick(xhist, present, TRUE)
                   ELSE /\ xpc' = "queryEnd"
                        /\ xhist' = [afterClick(xhist, present, FALSE) EXCEPT
                             !.reason = "noButton"]
  /\ UNCHANGED <<svars, wvars, yvars, xvariant, qi, processedKeys, totalSaved, batch, nextItem>>

\* offset, after the for loop: the next page unless this one was short
EndPage ==
  /\ xpc = "persist"
  /\ xvariant = "offset"
  /\ nextItem > Len(batch)
  /\ roundIndex' = roundIndex + 1
  /\ LET stop == xhist.fresh = 0 \/ Len(batch) < PerPage
         seen == [xhist EXCEPT !.stopAt = IF @ = 0 /\ stop THEN xhist.fetches ELSE @]
     IN
     IF Len(batch) < PerPage
       THEN /\ xpc' = "queryEnd"
            /\ xhist' = [seen EXCEPT !.reason = "lastPage"]
       ELSE /\ xpc' = "loop"
            /\ xhist' = humanDelay(seen)
  /\ UNCHANGED <<svars, wvars, yvars, xvariant, qi, shown, prevCount, processedKeys,
                 totalSaved, batch, nextItem>>

\* runExtraction: the page is closed and the next query starts
NextQuery ==
  /\ xpc = "queryEnd"
  /\ qi' = qi + 1
  /\ xpc' = IF qi < Len(searchQueries) THEN "start" ELSE "finished"
  /\ xhist' = humanDelay(xhist)
  /\ UNCHANGED <<svars, wvars, yvars, xvariant, shown, prevCount, roundIndex, processedKeys,
                 totalSaved, batch, nextItem>>

ExtractNext ==
  \/ StartQuery
  \/ ExtractBatch
  \/ FetchPage
  \/ PersistItem
  \/ EndBatch
  \/ EndPage
  \/ NextQuery

----------------------------------------------------------------------------
(* Specifications *)

\* the worker idle while the extractor runs on an empty store
InitWorkerIdle ==
  /\ variant = "drain"
  /\ pc = "idle"
  /\ cur = 0
  /\ result = "none"
  /\ processed = 0
  /\ success = 0
  /\ lastDelay = "none"
  /\ pre = NewTraining(0, 1, FALSE)
  /\ hist = [ attemptNo |-> [i \in 1..NumTrainings |-> 0], prevNo |-> 0,
              navigated |-> {}, txFailed |-> {}, marked |-> {}, noUrl |-> {},
              cause |-> "none" ]

\* the extractor not started while the worker runs
InitExtractIdle ==
  /\ xvariant = "reveal"
  /\ xpc = "off"
  /\ qi = 1
  /\ shown = 0
  /\ prevCount = 0
  /\ roundIndex = 0
  /\ processedKeys = {}
  /\ totalSaved = 0
  /\ batch = << >>
  /\ nextItem = 1
  /\ xhist = NoXHist

InitEmptyStore ==
  /\ trainings = << >>
  /\ centers = << >>
  /\ clock = 0

InitNoCall ==
  /\ args = [ fn |-> "none" ]
  /\ ret = [ fn |-> "none" ]

InitNoRun ==
  /\ res = [ at |-> "off" ]
  /\ sync = [ at |-> "off" ]

Init == InitStore /\ InitWorker /\ InitExtractIdle /\ InitNoCall /\ InitNoRun

Next == WorkerNext

Spec == Init /\ [][Next]_vars

InitX == InitEmptyStore /\ InitWorkerIdle /\ InitExtract /\ InitNoCall /\ InitNoRun

SpecExtract == InitX /\ [][ExtractNext]_vars

----------------------------------------------------------------------------
(* ensureCenter on its own: any sequence of normalized items *)

\* calls made in one sequence
MaxCalls == 3

\* the center fields of a normalized item: a name or none, a registry id or
\* none, a city or none
CenterInputs ==
  { [normalizeListItem(EmptyItem, "reveal") EXCEPT
       !.centerName = name, !.centerExternalId = ext, !.centerCity = city] :
    name \in {0, 51, 52, 53, 54}, ext \in {0, 61, 62}, city \in {0, 71, 72} }

\* the fields of a registry record: each is optional
OpenDataRecords == [ siren : {0, 98, 99}, declaredTrainers : {0, 5} ]

\* updateCenterWithRecord: the update data are field ?? null
updateCenterWithRecord(row, fields) ==
  [ row EXCEPT !.siren = fields.siren, !.declaredTrainers = fields.declaredTrainers ]

\* syncOpenData: one center that misses a registry field, updated with the best
\* matching record
SyncCenterCall ==
  /\ clock < MaxCalls
  /\ \E c \in 1..Len(centers), fields \in OpenDataRecords :
       /\ centers[c].siren = 0 \/ centers[c].declaredTrainers = 0
       /\ centers' = [centers EXCEPT ![c] = updateCenterWithRecord(@, fields)]
  /\ clock' = clock + 1
  /\ UNCHANGED <<trainings, wvars, yvars, xvars>>

\* updateCenterInfo on its own, for any center and any parsed page
UpdateCenterInfoCall ==
  /\ clock < MaxCalls
  /\ \E c \in 1..Len(centers), parsed \in ParsedDetailData, flt \in DbFaults :
       /\ ~flt.trainingUpdate /\ ~flt.commit
       /\ centers' = updateCenterInfo(centers, c, parsed, clock + 1, flt, "drain").centers
  /\ clock' = clock + 1
  /\ UNCHANGED <<trainings, wvars, yvars, xvars>>

EnsureCenterCall ==
  /\ clock < MaxCalls
  /\ \E item \in CenterInputs :
       centers' = ensureCenter(centers, item, "reveal").centers
  /\ clock' = clock + 1
  /\ UNCHANGED <<trainings, wvars, yvars, xvars>>

CentersNext ==
  \/ EnsureCenterCall
  \/ UpdateCenterInfoCall
  \/ SyncCenterCall

InitCenters ==
  InitEmptyStore /\ InitWorkerIdle /\ InitExtractIdle /\ InitNoCall /\ InitNoRun

SpecCenters == InitCenters /\ [][CentersNext]_vars


----------------------------------------------------------------------------
(* The same source data processed twice *)

\* items or pages of one run
MaxRun == 2

\* centers stored before the first run
MaxSeed == 1

RerunItems ==
  { [normalizeListItem(EmptyItem, "reveal") EXCEPT
       !.centerName = name, !.centerExternalId = ext, !.centerCity = city] :
    name \in {51, 52, 53}, ext \in {0, 61}, city \in {0, 71} }

\* one step of a run: a normalized item handed to ensureCenter, or the parsed
\* detail page of a training of a center handed to updateCenterInfo, with the
\* outcome of its first database update
ListSteps ==
  { [ kind |-> "list", item |-> item, center |-> 0, fails |-> FALSE,
      parsed |-> [ price |-> FALSE, contact |-> FALSE, website |-> FALSE ] ] :
    item \in RerunItems }

DetailSteps ==
  { [ kind |-> "detail", item |-> normalizeListItem(EmptyItem, "reveal"),
      center |-> c, fails |-> f,
      parsed |-> [ price |-> FALSE, contact |-> pc1, website |-> pw ] ] :
    c \in 1..(MaxSeed + 1), f \in BOOLEAN, pc1 \in BOOLEAN, pw \in BOOLEAN }

applyStep(cs, step, now) ==
  IF step.kind = "list"
    THEN ensureCenter(cs, step.item, "reveal").centers
  ELSE IF step.center <= Len(cs)
    THEN updateCenterInfo(cs, step.center, step.parsed, now,
                          [ trainingUpdate |-> FALSE, centerUpdate |-> step.fails,
                            centerRetry |-> FALSE, commit |-> FALSE ],
                          "drain").centers
  ELSE cs

RECURSIVE runAll(_, _, _)
runAll(cs, steps, now) ==
  IF steps = << >> THEN cs ELSE runAll(applyStep(cs, Head(steps), now), Tail(steps), now)

RunInputs ==
  UNION { [1..n -> ListSteps] \cup [1..n -> DetailSteps] : n \in 1..MaxRun }

InitRerun ==
  /\ InitEmptyStore
  /\ InitWorkerIdle
  /\ InitNoCall
  /\ InitNoRun
  /\ xvariant = "reveal"
  /\ xpc = "off"
  /\ qi = 1
  /\ shown = 0
  /\ prevCount = 0
  /\ roundIndex = 0
  /\ processedKeys = {}
  /\ totalSaved = 0
  /\ batch \in RunInputs
  /\ nextItem = 1
  /\ xhist = NoXHist

\* a center stored by an earlier list sync
SeedCenter ==
  /\ roundIndex = 0
  /\ prevCount < MaxSeed
  /\ \E item \in RerunItems :
       centers' = ensureCenter(centers, item, "reveal").centers
  /\ prevCount' = prevCount + 1
  /\ UNCHANGED <<trainings, clock, wvars, yvars, xvariant, xpc, qi, shown, roundIndex,
                 processedKeys, totalSaved, batch, nextItem, xhist>>

\* one run over the source data: the first, then the second on the resulting store
RunOnce ==
  /\ roundIndex < 2
  /\ clock' = clock + 1
  /\ centers' = runAll(centers, batch, clock + 1)
  /\ roundIndex' = roundIndex + 1
  /\ xhist' = IF roundIndex = 0 THEN [xhist EXCEPT !.firstRun = centers'] ELSE xhist
  /\ UNCHANGED <<trainings, wvars, yvars, xvariant, xpc, qi, shown, prevCount, processedKeys,
                 totalSaved, batch, nextItem>>

RerunNext ==
  \/ SeedCenter
  \/ RunOnce

SpecRerun == InitRerun /\ [][RerunNext]_vars

----------------------------------------------------------------------------
(* The extractor at work while the worker runs *)

\* persistListItem of the extractor, update branch, after the worker selected a
\* training and before its writes for it are over: the list page shows that
\* training again, for its center (once in a run)
ListRefresh ==
  /\ pc \in {"process", "txfailed"}
  /\ args.fn = "none"
  /\ \E id \in {cur} :
       LET item == [normalizeListItem(EmptyItem, "reveal") EXCEPT
                      !.detailUrl = trainings[id].detailUrl, !.title = 45]
       IN
       /\ trainings[id].detailUrl # 0
       /\ findByDetailUrl(trainings, item.detailUrl) = id
       /\ trainings' = [trainings EXCEPT
                          ![id] = listData(@, item, trainings[id].centerId, clock)]
       /\ args' = [ fn |-> "persistListItem", row |-> id ]
       /\ ret' = [ fn |-> "persistListItem", processed |-> processed ]
  /\ UNCHANGED <<centers, clock, wvars, xvars, res, sync>>

ConcurrentNext ==
  \/ WorkerNext
  \/ ListRefresh

InitConcurrent ==
  InitStore /\ InitWorker /\ InitExtractIdle /\ InitNoCall /\ InitNoRun

SpecConcurrent == InitConcurrent /\ [][ConcurrentNext]_vars

----------------------------------------------------------------------------
(* Whole operations on one store, in any order: a list item persisted, a    *)
(* training enriched, the tables cleared                                    *)

\* mutant: the centers are deleted, the trainings are not
clearCentersOnly(trs, cs, failure) ==
  [ trainings |-> trs, centers |-> << >>, removed |-> <<0, Len(cs)>> ]

\* clearTables: both deleteMany in one transaction; failure names the call that
\* fails ("none", "trainings", "centers", "commit"), which rolls back
clearTables(trs, cs, failure) ==
  IF failure = "none"
    THEN [ trainings |-> << >>, centers |-> << >>, removed |-> <<Len(trs), Len(cs)>> ]
    ELSE [ trainings |-> trs, centers |-> cs, removed |-> <<0, 0>> ]

\* a raw item of either extractor, persisted
PersistCall ==
  /\ clock < MaxCalls
  /\ \E i \in 1..Len(Catalogue), flt \in {"none", "center", "training"} :
       LET raw == IF xvariant = "reveal" THEN cardItem(Catalogue[i])
                  ELSE apiItem(Catalogue[i])
           item == normalizeListItem(raw, xvariant)
           out == persistListItem(trainings, centers, item, clock + 1, flt, xvariant)
       IN /\ flt # "none" => out.threw
          /\ trainings' = out.trainings
          /\ centers' = out.centers
          /\ args' = [ fn |-> "persistListItem", item |-> item ]
          /\ ret' = [ fn |-> "persistListItem", saved |-> out.saved ]
  /\ clock' = clock + 1
  /\ UNCHANGED <<wvars, xvars, res, sync>>

\* processTraining of a pending training with a URL, as one step
EnrichCall ==
  /\ clock < MaxCalls
  /\ \E id \in 1..Len(trainings), parsed \in ParsedDetailData, flt \in DbFaults,
        v \in {"drain", "batch"} :
       LET out == enrichTransaction(trainings, centers, id, parsed, clock + 1, flt, v) IN
       /\ trainings[id].needsDetail
       /\ trainings' = out.trainings
       /\ centers' = out.centers
       /\ args' = [ fn |-> "processTraining", id |-> id ]
       /\ ret' = [ fn |-> "processTraining", ok |-> out.ok ]
  /\ clock' = clock + 1
  /\ UNCHANGED <<wvars, xvars, res, sync>>

ClearCall ==
  /\ clock < MaxCalls
  /\ \E failure \in {"none", "trainings", "centers", "commit"} :
       LET out == clearTables(trainings, centers, failure) IN
       /\ trainings' = out.trainings
       /\ centers' = out.centers
       /\ args' = [ fn |-> "clearTables", failure |-> failure ]
       /\ ret' = [ fn |-> "clearTables", removed |-> out.removed ]
  /\ clock' = clock + 1
  /\ UNCHANGED <<wvars, xvars, res, sync>>

StoreNext ==
  \/ PersistCall
  \/ EnrichCall
  \/ ClearCall

InitOperations ==
  /\ InitEmptyStore
  /\ InitWorkerIdle
  /\ InitNoCall
  /\ InitNoRun
  /\ xvariant \in {"reveal", "offset"}
  /\ xpc = "off"
  /\ qi = 1
  /\ shown = 0
  /\ prevCount = 0
  /\ roundIndex = 0
  /\ processedKeys = {}
  /\ totalSaved = 0
  /\ batch = << >>
  /\ nextItem = 1
  /\ xhist = NoXHist

SpecStore == InitOperations /\ [][StoreNext]_vars

----------------------------------------------------------------------------
(* runEnrichment and runExtraction as holders of resources.  Every awaited  *)
(* call on the browser, a page or the store may reject.                     *)

\* rounds of a loop followed in one run
MaxRounds == 2

\* the error leaves the function: nothing more is released
thrown(r) == [r EXCEPT !.at = "threw"]

\* createBrowser: without a browser there is nothing to release
LaunchBrowser ==
  /\ res.at = "launch"
  /\ \E ok \in BOOLEAN :
       res' = IF ok THEN [res EXCEPT !.at = "newPage", !.browser = "open"]
              ELSE thrown(res)
  /\ UNCHANGED <<svars, wvars, xvars, args, ret, sync>>

\* browser.newPage(), before the try block in both functions; in processQuery
\* the error reaches the finally block of runExtraction
OpenPage ==
  /\ res.at = "newPage"
  /\ \E ok \in BOOLEAN :
       res' = IF ok THEN [res EXCEPT !.at = "configure", !.pages = @ + 1]
              ELSE IF res.prog = "enrich" THEN thrown(res)
              ELSE [res EXCEPT !.at = "closeBrowser", !.error = TRUE]
  /\ UNCHANGED <<svars, wvars, xvars, args, ret, sync>>

\* setUserAgent, setExtraHTTPHeaders, setRequestInterception: before the try
ConfigurePage ==
  /\ res.at = "configure"
  /\ \E ok \in BOOLEAN :
       res' = IF ok THEN [res EXCEPT !.at = "body"]
              ELSE IF res.prog = "enrich" THEN thrown(res)
              ELSE [res EXCEPT !.at = "closeBrowser", !.error = TRUE]
  /\ UNCHANGED <<svars, wvars, xvars, args, ret, sync>>

\* one round of the loop in the try block (a training in runEnrichment, a batch
\* in processQuery): it throws, or it is followed by another round or by the end
\* of the loop
RunBody ==
  /\ res.at = "body"
  /\ \E ok \in BOOLEAN, more \in BOOLEAN :
       res' = IF ~ok THEN [res EXCEPT !.at = "closePage", !.error = TRUE]
              ELSE IF more /\ res.rounds < MaxRounds THEN [res EXCEPT !.rounds = @ + 1]
              ELSE [res EXCEPT !.at = "closePage"]
  /\ UNCHANGED <<svars, wvars, xvars, args, ret, sync>>

\* finally: page.close(); in processQuery the next query follows, or the error
\* goes on to the finally block of runExtraction
ClosePage ==
  /\ res.at = "closePage"
  /\ \E ok \in BOOLEAN :
       res' = IF ~ok
                THEN IF res.prog = "enrich" THEN thrown(res)
                     ELSE [res EXCEPT !.at = "closeBrowser", !.error = TRUE]
              ELSE IF res.prog = "extract" /\ ~res.error /\ res.query < Len(searchQueries)
                THEN [res EXCEPT !.at = "newPage", !.pages = @ - 1, !.query = @ + 1]
              ELSE [res EXCEPT !.at = "closeBrowser", !.pages = @ - 1]
  /\ UNCHANGED <<svars, wvars, xvars, args, ret, sync>>

\* finally: browser.close(), which closes the pages of the browser
CloseBrowser ==
  /\ res.at = "closeBrowser"
  /\ \E ok \in BOOLEAN :
       res' = IF ok THEN [res EXCEPT !.at = "disconnect", !.browser = "closed", !.pages = 0]
              ELSE thrown(res)
  /\ UNCHANGED <<svars, wvars, xvars, args, ret, sync>>

\* finally: prisma.$disconnect(), then the function returns or rethrows
Disconnect ==
  /\ res.at = "disconnect"
  /\ \E ok \in BOOLEAN :
       res' = IF ~ok THEN thrown(res)
              ELSE [res EXCEPT !.db = "released",
                               !.at = IF res.error THEN "threw" ELSE "returned"]
  /\ UNCHANGED <<svars, wvars, xvars, args, ret, sync>>

ResourcesNext ==
  \/ LaunchBrowser
  \/ OpenPage
  \/ ConfigurePage
  \/ RunBody
  \/ ClosePage
  \/ CloseBrowser
  \/ Disconnect

InitResources ==
  /\ InitEmptyStore
  /\ InitWorkerIdle
  /\ InitExtractIdle
  /\ InitNoCall
  /\ sync = [ at |-> "off" ]
  /\ res \in [ at : {"launch"}, prog : {"enrich", "extract"}, browser : {"none"},
                pages : {0}, db : {"connected"}, error : {FALSE}, query : {1},
                rounds : {0} ]

SpecResources == InitResources /\ [][ResourcesNext]_vars

----------------------------------------------------------------------------
(* syncOpenData: the registry lookups of one pass *)

\* centers selected by one pass
MaxSyncCenters == 2

\* MAX_RETRIES, the default
MaxRetries == 2

\* parameter sets tried by fetchRecords: one in src/sync/opendata.ts ("plain"),
\* refine.denomination then q in the later variant ("permissive")
paramSets(v) == IF v = "plain" THEN 1 ELSE 2

\* mutant: the lookup never gives up
giveUpNever(attempt) == FALSE

\* if (attempt >= MAX_RETRIES) throw error
giveUp(attempt) == attempt >= MaxRetries

\* the for loop of syncOpenData goes to its next center, or ends and disconnects
nextCenter(s) ==
  IF s.left <= 1 THEN [s EXCEPT !.at = "done", !.left = 0]
  ELSE [s EXCEPT !.at = "request", !.left = @ - 1, !.set = 1, !.attempt = 0,
                 !.requests = 0, !.failedLast = FALSE]

\* findMany: the centers that miss a registry field
SyncStart ==
  /\ sync.at = "start"
  /\ \E n \in 0..MaxSyncCenters :
       sync' = IF n = 0 THEN [sync EXCEPT !.at = "done"]
               ELSE [sync EXCEPT !.at = "request", !.total = n, !.left = n]
  /\ UNCHANGED <<svars, wvars, xvars, args, ret, res>>

\* fetchRecords: axios.get answers with records or with none, or fails
SendRequest ==
  /\ sync.at = "request"
  /\ \E outcome \in {"records", "empty", "error"} :
       LET sent == [sync EXCEPT !.requests = @ + 1,
                                !.maxRequests = IF sync.requests + 1 > @
                                                  THEN sync.requests + 1 ELSE @,
                                !.rushed = @ \/ sync.failedLast,
                                !.failedLast = FALSE]
       IN
       sync' = IF outcome = "records" THEN [sent EXCEPT !.at = "update"]
               ELSE IF outcome = "empty"
                 THEN IF sync.variant = "permissive" /\ sync.set < paramSets(sync.variant)
                        THEN [sent EXCEPT !.set = @ + 1, !.attempt = 0, !.requests = 0]
                        ELSE nextCenter(sent)
               ELSE IF giveUp(sync.attempt)
                 THEN nextCenter([sent EXCEPT !.gaveUp = @ + 1])
               ELSE [sent EXCEPT !.at = "delay", !.failedLast = TRUE]
  /\ UNCHANGED <<svars, wvars, xvars, args, ret, res>>

\* humanDelay(delayMs) of the catch block of fetchRecords, then the next attempt
DelayBeforeRetry ==
  /\ sync.at = "delay"
  /\ sync' = [sync EXCEPT !.at = "request", !.attempt = @ + 1, !.failedLast = FALSE]
  /\ UNCHANGED <<svars, wvars, xvars, args, ret, res>>

\* pickBestRecord and updateCenterWithRecord inside the try block: no match, an
\* update, or an update that throws and is caught
UpdateFromRecord ==
  /\ sync.at = "update"
  /\ \E matched \in BOOLEAN, ok \in BOOLEAN :
       sync' = nextCenter([sync EXCEPT !.updated = IF matched /\ ok THEN @ + 1 ELSE @])
  /\ UNCHANGED <<svars, wvars, xvars, args, ret, res>>

SyncNext ==
  \/ SyncStart
  \/ SendRequest
  \/ DelayBeforeRetry
  \/ UpdateFromRecord

InitSync ==
  /\ InitEmptyStore
  /\ InitWorkerIdle
  /\ InitExtractIdle
  /\ InitNoCall
  /\ res = [ at |-> "off" ]
  /\ sync \in [ at : {"start"}, variant : {"plain", "permissive"}, total : {0},
                 left : {0}, set : {1}, attempt : {0}, requests : {0},
                 maxRequests : {0}, failedLast : {FALSE}, rushed : {FALSE},
                 gaveUp : {0}, updated : {0} ]

SpecSync == InitSync /\ [][SyncNext]_vars

----------------------------------------------------------------------------
(* Helper functions, called on their own: one call on any input.  A text is *)
(* a sequence of characters.                                                *)

\* characters of a price text
MaxPriceLen == 3

PriceChars == {"1", "5", ",", ".", "-", "a"}

Digits == {"0", "1", "2", "3", "4", "5", "6", "7", "8", "9"}

digitValue(c) ==
  CASE c = "0" -> 0 [] c = "1" -> 1 [] c = "2" -> 2 [] c = "3" -> 3 [] c = "4" -> 4
    [] c = "5" -> 5 [] c = "6" -> 6 [] c = "7" -> 7 [] c = "8" -> 8 [] c = "9" -> 9

RECURSIVE digitsValue(_)
digitsValue(ds) ==
  IF ds = << >> THEN 0
  ELSE digitsValue(SubSeq(ds, 1, Len(ds) - 1)) * 10 + digitValue(ds[Len(ds)])

RECURSIVE pow10(_)
pow10(n) == IF n = 0 THEN 1 ELSE 10 * pow10(n - 1)

\* numbers are counted in thousandths
Scale == 1000

NaN == [ finite |-> FALSE, value |-> 0 ]

\* Number(text) for a text of digits, dots, commas and minus signs: 0 for the
\* empty text, NaN unless the text is an optional sign and digits with at most
\* one dot; decimals beyond the third are dropped
Number(text) ==
  LET neg == text # << >> /\ text[1] = "-"
      body == IF neg THEN Tail(text) ELSE text
      dots == {i \in 1..Len(body) : body[i] = "."}
      ok == /\ \A i \in 1..Len(body) : body[i] \in Digits \cup {"."}
            /\ Cardinality(dots) <= 1
            /\ \E i \in 1..Len(body) : body[i] \in Digits
      dot == IF dots = {} THEN Len(body) + 1 ELSE CHOOSE i \in dots : TRUE
      int == SubSeq(body, 1, dot - 1)
      frac == SubSeq(body, dot + 1, Len(body))
      mag == digitsValue(int) * Scale + (digitsValue(frac) * Scale) \div pow10(Len(frac))
  IN
  IF text = << >> THEN [ finite |-> TRUE, value |-> 0 ]
  ELSE IF ~ok THEN NaN
  ELSE [ finite |-> TRUE, value |-> IF neg THEN 0 - mag ELSE mag ]

isNumericChar(c) == c \in Digits \cup {".", ",", "-"}

\* value.replace(/[^0-9.,-]/g, "").replace(",", "."): the second replace
\* changes the first comma only
normalizeNumberText(text) ==
  LET kept == SelectSeq(text, isNumericChar)
      commas == {i \in 1..Len(kept) : kept[i] = ","}
  IN
  IF commas = {} THEN kept
  ELSE [kept EXCEPT ![CHOOSE i \in commas : \A j \in commas : i <= j] = "."]

\* what pickNumber makes of a string candidate
parseNumberText(text) == Number(normalizeNumberText(text))

Undefined == [ kind |-> "undefined", text |-> << >>, num |-> 0 ]

StringValue(text) == [ kind |-> "string", text |-> text, num |-> 0 ]

NumberValue(n) == [ kind |-> "number", text |-> << >>, num |-> n ]

\* pickNumber: the first candidate that is a finite number or a string whose
\* normalized text converts to a finite number
RECURSIVE pickNumber(_)
pickNumber(values) ==
  IF values = << >> THEN [ defined |-> FALSE, value |-> 0 ]
  ELSE LET value == Head(values) IN
       IF value.kind = "number"
         THEN [ defined |-> TRUE, value |-> value.num ]
       ELSE IF value.kind = "string" /\ parseNumberText(value.text).finite
         THEN [ defined |-> TRUE, value |-> parseNumberText(value.text).value ]
       ELSE pickNumber(Tail(values))

\* thousandths ending in 5 whose double lies below the decimal: toFixed(2)
\* rounds them towards zero
HalfBelow == {155}

\* priceValue.toFixed(2), in hundredths
toFixed2(v) ==
  LET mag == IF v < 0 THEN 0 - v ELSE v
      q == mag \div 10
      r == mag % 10
      cents == IF r > 5 \/ (r = 5 /\ mag \notin HalfBelow) THEN q + 1 ELSE q
  IN IF v < 0 THEN 0 - cents ELSE cents

\* priceDecimal ?? null of persistListItem: the column priceValue
storedPrice(priceValue) ==
  IF priceValue.defined
    THEN [ null |-> FALSE, cents |-> toFixed2(priceValue.value) ]
    ELSE [ null |-> TRUE, cents |-> 0 ]

PriceTexts == UNION { [1..n -> PriceChars] : n \in 0..MaxPriceLen }

\* item.prix may be a number, a text or missing; item.priceText a text or missing
FirstPriceCandidates ==
  {Undefined, NumberValue(0), NumberValue(12500)} \cup {StringValue(t) : t \in PriceTexts}

LastPriceCandidates ==
  {Undefined, StringValue(<<"a">>), StringValue(<<"1", "5">>)}

\* normalizeListItem computes priceValue and persistListItem stores it
CallPickNumber ==
  /\ args.fn = "none"
  /\ \E first \in FirstPriceCandidates, last \in LastPriceCandidates :
       /\ args' = [ fn |-> "pickNumber", values |-> <<first, last>> ]
       /\ ret' = [ fn |-> "pickNumber",
                   priceValue |-> pickNumber(<<first, last>>),
                   stored |-> storedPrice(pickNumber(<<first, last>>)) ]
  /\ UNCHANGED <<svars, wvars, xvars, res, sync>>

\* characters of a center name
MaxNameLen == 4

NameChars == {"s", "a", "A", "é", "ø", "&", " ", "1"}

\* [a-z0-9] among the characters of the model; \b of a RegExp without the u flag
\* sees the same characters as word characters
AsciiAlnum == {"s", "a", "e", "t", "1"}

\* removeAccents(rawName).replace(/&/g, ' et ').toLowerCase(): NFD splits é into
\* e and an accent that is removed, ø has no decomposition
RECURSIVE foldName(_)
foldName(text) ==
  IF text = << >> THEN << >>
  ELSE (CASE Head(text) = "é" -> <<"e">>
          [] Head(text) = "A" -> <<"a">>
          [] Head(text) = "&" -> <<" ", "e", "t", " ">>
          [] OTHER -> <<Head(text)>>) \o foldName(Tail(text))

\* the first entries of CORPORATE_TOKENS that the characters of the model can
\* spell, in the order of the list
CorporateTokens == << <<"s", "a", "s">>, <<"s", "a">> >>

\* result.replace(/\btoken\b/gi, ' '); afterWord: the character before text is
\* a word character
RECURSIVE replaceToken(_, _, _)
replaceToken(text, token, afterWord) ==
  IF text = << >> THEN << >>
  ELSE IF /\ ~afterWord
          /\ Len(text) >= Len(token)
          /\ SubSeq(text, 1, Len(token)) = token
          /\ (Len(text) = Len(token) \/ text[Len(token) + 1] \notin AsciiAlnum)
    THEN <<" ">> \o replaceToken(SubSeq(text, Len(token) + 1, Len(text)), token, TRUE)
  ELSE <<Head(text)>> \o replaceToken(Tail(text), token, Head(text) \in AsciiAlnum)

RECURSIVE stripTokens(_, _)
stripTokens(text, tokens) ==
  IF tokens = << >> THEN text
  ELSE stripTokens(replaceToken(text, Head(tokens), FALSE), Tail(tokens))

stripCorporateTokens(value) == stripTokens(value, CorporateTokens)

\* .replace(/[^a-z0-9]+/g, ' ').replace(/\s+/g, ' ').trim(); afterSpace: nothing
\* or a space has been written last
RECURSIVE squeeze(_, _)
squeeze(text, afterSpace) ==
  IF text = << >> THEN << >>
  ELSE IF Head(text) \in AsciiAlnum
    THEN <<Head(text)>> \o squeeze(Tail(text), FALSE)
  ELSE IF afterSpace \/ \A i \in 1..Len(text) : text[i] \notin AsciiAlnum
    THEN squeeze(Tail(text), TRUE)
  ELSE <<" ">> \o squeeze(Tail(text), TRUE)

\* normalizeCenterName of appConfig.ts, on a text
normalizeCenterNameText(rawName) ==
  LET normalized == squeeze(stripCorporateTokens(foldName(rawName)), TRUE) IN
  IF Len(normalized) = 0 THEN squeeze(foldName(rawName), TRUE) ELSE normalized

NameTexts == UNION { [1..n -> NameChars] : n \in 0..MaxNameLen }

\* the first lines of ensureCenter: the center is given up (null) when the
\* trimmed name or its key is empty
CallNormalizeCenterName ==
  /\ args.fn = "none"
  /\ \E rawName \in NameTexts :
       /\ args' = [ fn |-> "normalizeCenterName", rawName |-> rawName ]
       /\ ret' = [ fn |-> "normalizeCenterName",
                   key |-> normalizeCenterNameText(rawName),
                   discarded |-> \/ \A i \in 1..Len(rawName) : rawName[i] = " "
                                 \/ normalizeCenterNameText(rawName) = << >> ]
  /\ UNCHANGED <<svars, wvars, xvars, res, sync>>

\* MAX_LENGTH of validateWebsiteUrl
MaxWebsiteLength == 255

\* a website text, by the lengths of its parts: blanks around it, the scheme it
\* starts with, host, path (with its slash) and what follows the path; parses:
\* new URL accepts it, once "https://" is put before a text without scheme
WebsiteTexts ==
  [ pad : {0, 2}, scheme : {"http://", "https://", "none"}, hostLen : {0, 11, 250},
    pathLen : {0, 30, 300}, queryLen : {0, 300}, parses : BOOLEAN ]

schemeLen(scheme) ==
  CASE scheme = "http://" -> 7 [] scheme = "https://" -> 8 [] OTHER -> 0

trimmedLen(url) == schemeLen(url.scheme) + url.hostLen + url.pathLen + url.queryLen

\* validateWebsiteUrl: the form of the value returned, its length, and how many
\* characters of the host are in it
validateWebsiteUrl(url) ==
  LET cleanScheme == IF url.scheme = "none" THEN 8 ELSE schemeLen(url.scheme)
      cleanLen == cleanScheme + url.hostLen + (IF url.pathLen = 0 THEN 1 ELSE url.pathLen)
      hostIn(prefix) ==
        IF prefix + url.hostLen <= MaxWebsiteLength THEN url.hostLen
        ELSE MaxWebsiteLength - prefix
  IN
  IF trimmedLen(url) = 0
    THEN [ defined |-> FALSE, form |-> "none", len |-> 0, hostKept |-> 0 ]
  ELSE IF trimmedLen(url) <= MaxWebsiteLength
    THEN [ defined |-> TRUE, form |-> "trimmed", len |-> trimmedLen(url),
           hostKept |-> url.hostLen ]
  ELSE IF url.parses /\ cleanLen <= MaxWebsiteLength
    THEN [ defined |-> TRUE, form |-> "clean", len |-> cleanLen, hostKept |-> url.hostLen ]
  ELSE IF url.parses
    THEN [ defined |-> TRUE, form |-> "cleanCut", len |-> MaxWebsiteLength,
           hostKept |-> hostIn(cleanScheme) ]
  ELSE [ defined |-> TRUE, form |-> "cut", len |-> MaxWebsiteLength,
         hostKept |-> hostIn(schemeLen(url.scheme)) ]

\* centerUpdates.website of updateCenterInfo: validated in the draining worker,
\* the page's value as extractContacts trimmed it in the bounded one
websiteUpdate(url, v) ==
  IF v = "drain" THEN validateWebsiteUrl(url)
  ELSE IF trimmedLen(url) = 0
    THEN [ defined |-> FALSE, form |-> "none", len |-> 0, hostKept |-> 0 ]
  ELSE [ defined |-> TRUE, form |-> "trimmed", len |-> trimmedLen(url),
         hostKept |-> url.hostLen ]

CallUpdateWebsite ==
  /\ args.fn = "none"
  /\ \E url \in WebsiteTexts, v \in {"drain", "batch"} :
       /\ args' = [ fn |-> "updateCenterInfo", website |-> url, variant |-> v ]
       /\ ret' = [ fn |-> "updateCenterInfo", website |-> websiteUpdate(url, v) ]
  /\ UNCHANGED <<svars, wvars, xvars, res, sync>>

\* records in one registry response
MaxRecords == 2

\* a registry record as pickBestRecord sees it: its denomination (0: none), the
\* date of its last declaration, and whether isPersonalNameGoodMatch accepts it
\* for the center name
RegistryRecords ==
  [ denomination : {0, 51, 52, 53}, date : {1, 2}, personal : BOOLEAN ]

\* exactMatches: the records whose normalized denomination is the normalized name
exactMatches(centerName, records) ==
  {i \in 1..Len(records) :
     /\ records[i].denomination # 0
     /\ normalizeCenterName(records[i].denomination) = normalizeCenterName(centerName)}

personalMatches(records) ==
  {i \in 1..Len(records) : records[i].denomination # 0 /\ records[i].personal}

\* matches.sort by date, descending and stable; [0]
latestOf(records, matches) ==
  CHOOSE i \in matches :
    \A j \in matches :
      \/ records[i].date > records[j].date
      \/ records[i].date = records[j].date /\ i <= j

\* pickBestRecord: the index of the record returned, 0 for undefined; "plain" is
\* src/sync/opendata.ts, "permissive" the variant with the personal-name rule
pickBestRecord(centerName, records, v) ==
  IF exactMatches(centerName, records) # {}
    THEN IF v = "plain" THEN firstRow(exactMatches(centerName, records))
         ELSE latestOf(records, exactMatches(centerName, records))
  ELSE IF v = "plain"
    THEN IF records = << >> THEN 0 ELSE 1
  ELSE IF personalMatches(records) # {}
    THEN latestOf(records, personalMatches(records))
  ELSE 0

\* the body of the loop of syncOpenData once the response is there: the center
\* is updated when there are records and pickBestRecord returns one
CallPickBestRecord ==
  /\ args.fn = "none"
  /\ \E centerName \in {51, 53, 54}, v \in {"plain", "permissive"},
        records \in UNION { [1..n -> RegistryRecords] : n \in 0..MaxRecords } :
       /\ args' = [ fn |-> "pickBestRecord", centerName |-> centerName,
                    records |-> records, variant |-> v ]
       /\ ret' = [ fn |-> "pickBestRecord",
                   picked |-> pickBestRecord(centerName, records, v),
                   updated |-> records # << >> /\ pickBestRecord(centerName, records, v) # 0 ]
  /\ UNCHANGED <<svars, wvars, xvars, res, sync>>

\* characters of a registry denomination
MaxDenominationLen == 5

\* the entries of CIVILITY_TOKENS that the characters of the model can spell
CivilityTokens == { <<"m", ".">>, <<"m">> }

\* text.split(/[\s-]+/): the non-empty runs between blanks; word: the run read so far
RECURSIVE splitTokens(_, _)
splitTokens(text, word) ==
  IF text = << >> THEN (IF word = << >> THEN << >> ELSE <<word>>)
  ELSE IF Head(text) = " "
    THEN (IF word = << >> THEN << >> ELSE <<word>>) \o splitTokens(Tail(text), << >>)
  ELSE splitTokens(Tail(text), Append(word, Head(text)))

\* nameTokens: punctuation becomes a blank, then the tokens that are not a civility
nameTokens(text) ==
  LET base == [i \in 1..Len(text) |-> IF text[i] = "." THEN " " ELSE text[i]]
      tokens == splitTokens(base, << >>)
  IN {tokens[i] : i \in {j \in 1..Len(tokens) : tokens[j] \notin CivilityTokens}}

\* the number of tokens nameTokens returns (repeated tokens count)
nameTokenCount(text) ==
  LET base == [i \in 1..Len(text) |-> IF text[i] = "." THEN " " ELSE text[i]]
      tokens == splitTokens(base, << >>)
  IN Cardinality({j \in 1..Len(tokens) : tokens[j] \notin CivilityTokens})

\* hasCivility: CIVILITY_TOKENS.some((c) => low.includes(c)), a test on substrings
hasCivility(text) ==
  \E c \in CivilityTokens :
    \E i \in 1..Len(text) :
      i + Len(c) - 1 <= Len(text) /\ SubSeq(text, i, i + Len(c) - 1) = c

isPersonalNameGoodMatch(searchName, recordDenomination) ==
  /\ hasCivility(recordDenomination)
  /\ nameTokenCount(searchName) >= 2
  /\ nameTokens(searchName) \subseteq nameTokens(recordDenomination)

SearchNames ==
  { <<"a", " ", "b">>, <<"b", " ", "m", "a">>, <<"a">>, <<"m", ".", " ", "a", " ", "b">> }

DenominationTexts ==
  UNION { [1..n -> {"m", "a", "b", " ", "."}] : n \in 0..MaxDenominationLen }

CallIsPersonalNameGoodMatch ==
  /\ args.fn = "none"
  /\ \E searchName \in SearchNames, denomination \in DenominationTexts :
       /\ args' = [ fn |-> "isPersonalNameGoodMatch", searchName |-> searchName,
                    denomination |-> denomination ]
       /\ ret' = [ fn |-> "isPersonalNameGoodMatch",
                   accepted |-> isPersonalNameGoodMatch(searchName, denomination) ]
  /\ UNCHANGED <<svars, wvars, xvars, res, sync>>

\* ---------------------------------------------------------------------------
\* The extraction command line: parseCli and main
\* ---------------------------------------------------------------------------

\* the longest command line tried
MaxArgs == 2

\* configured query names, spelt by character and shortened ("a-d" for
\* anglais-distance); two share the theme "a" and one has no hyphen, so that
\* the exact and the prefix match both have cases
configuredNames == << <<"a", "-", "d">>, <<"b">>, <<"a", "-", "p">> >>

\* the texts that follow --query= or stand as a word after -q
CliTexts ==
  { << >>, <<"a">>, <<"b">>, <<"c">>, <<"a", "-", "d">>, <<"a", "-">>,
    <<"a", ",", "b">>, <<" ", "b">>, <<"c", ",", "b">>, <<"b", "=", "c">>, <<"c", "=", "b">> }

\* one element of process.argv.slice(2)
CliArgs ==
  {[flag |-> "--help"], [flag |-> "-q"], [flag |-> "-x"]}
    \cup [flag : {"--query=", "word"}, text : CliTexts]

\* text.split(sep): the runs between separators, empty runs included
RECURSIVE splitOn(_, _, _)
splitOn(text, sep, run) ==
  IF text = << >> THEN <<run>>
  ELSE IF Head(text) = sep THEN <<run>> \o splitOn(Tail(text), sep, << >>)
  ELSE splitOn(Tail(text), sep, Append(run, Head(text)))

\* value.trim()
RECURSIVE trim(_)
trim(text) ==
  IF text = << >> THEN text
  ELSE IF Head(text) = " " THEN trim(Tail(text))
  ELSE IF text[Len(text)] = " " THEN trim(SubSeq(text, 1, Len(text) - 1))
  ELSE text

\* rawValues.flatMap(split(',')).map(trim).filter(non-empty)
RECURSIVE normalizeQueryNames(_)
normalizeQueryNames(rawValues) ==
  IF rawValues = << >> THEN << >>
  ELSE LET pieces == splitOn(Head(rawValues), ",", << >>)
           trimmed == [i \in 1..Len(pieces) |-> trim(pieces[i])]
       IN SelectSeq(trimmed, LAMBDA v : v # << >>) \o normalizeQueryNames(Tail(rawValues))

\* candidate.startsWith('-') for an element of argv
startsWithDash(arg) ==
  IF arg.flag = "word" THEN arg.text # << >> /\ Head(arg.text) = "-" ELSE TRUE

\* the words after -q up to the first argument that starts with a dash
RECURSIVE lookaheadValues(_)
lookaheadValues(argv) ==
  IF argv = << >> \/ startsWithDash(Head(argv)) THEN << >>
  ELSE <<Head(argv).text>> \o lookaheadValues(Tail(argv))

\* arg.split('=')[1] of "--query=" \o text: the piece between the first and
\* the second equals sign
valueOfQueryArg(text) == splitOn(text, "=", << >>)[1]

\* the value of --query=<text> as the user wrote it, whole
wholeValueOfQueryArg(text) == text

\* parseCli over argv; options: what has been collected so far
RECURSIVE parseCli(_, _)
parseCli(argv, options) ==
  IF argv = << >> THEN options
  ELSE LET arg == Head(argv) IN
    IF arg.flag = "--help" THEN [options EXCEPT !.help = TRUE]
    ELSE IF arg.flag = "--query=" THEN
      LET value == valueOfQueryArg(arg.text) IN
      parseCli(Tail(argv),
               [options EXCEPT !.queryNames =
                  @ \o normalizeQueryNames(IF value # << >> THEN <<value>> ELSE << >>)])
    ELSE IF arg.flag = "-q" THEN
      LET values == lookaheadValues(Tail(argv)) IN
      parseCli(SubSeq(argv, 2 + Len(values), Len(argv)),
               [options EXCEPT !.queryNames = @ \o normalizeQueryNames(values)])
    ELSE parseCli(Tail(argv), options)

\* query.name === requested || query.name.startsWith(`${requested}-`)
matchesRequested(name, requested) ==
  \/ name = requested
  \/ /\ Len(name) > Len(requested)
     /\ SubSeq(name, 1, Len(requested) + 1) = Append(requested, "-")

\* main: the queries handed to runExtraction, whether it was started, the exit code
main(argv, extractionThrows) ==
  LET options == parseCli(argv, [queryNames |-> << >>, help |-> FALSE])
      queryNames == options.queryNames
      matched(name) == \E i \in 1..Len(queryNames) : matchesRequested(name, queryNames[i])
      queriesToRun == IF Len(queryNames) > 0
                        THEN SelectSeq(configuredNames, matched)
                        ELSE configuredNames
      unknownQueries ==
        SelectSeq(queryNames,
                  LAMBDA requested :
                    \A i \in 1..Len(configuredNames) :
                      ~matchesRequested(configuredNames[i], requested))
  IN IF options.help
       THEN [help |-> TRUE, started |-> FALSE, ran |-> << >>, ignored |-> << >>,
             exitCode |-> 0]
     ELSE IF Len(queriesToRun) = 0
       THEN [help |-> FALSE, started |-> FALSE, ran |-> << >>, ignored |-> unknownQueries,
             exitCode |-> 1]
     ELSE [help |-> FALSE, started |-> TRUE, ran |-> queriesToRun,
           ignored |-> unknownQueries,
           exitCode |-> IF extractionThrows THEN 1 ELSE 0]

CallMain ==
  /\ args.fn = "none"
  /\ \E n \in 0..MaxArgs :
       \E argv \in [1..n -> CliArgs], extractionThrows \in BOOLEAN :
         /\ args' = [fn |-> "main", argv |-> argv]
         /\ ret' = [fn |-> "main", out |-> main(argv, extractionThrows)]
  /\ UNCHANGED <<svars, wvars, xvars, res, sync>>

HelpersNext ==
  \/ CallMain
  \/ CallPickNumber
  \/ CallNormalizeCenterName
  \/ CallUpdateWebsite
  \/ CallPickBestRecord
  \/ CallIsPersonalNameGoodMatch

InitHelpers ==
  InitEmptyStore /\ InitWorkerIdle /\ InitExtractIdle /\ InitNoCall /\ InitNoRun

SpecHelpers == InitHelpers /\ [][HelpersNext]_vars

\* ---------------------------------------------------------------------------
\* The worker on a backlog of one: the other trainings were enriched by an
\* earlier run
\* ---------------------------------------------------------------------------

InitBacklogOfOne ==
  /\ trainings \in
       { [ i \in 1..NumTrainings |->
             NewTraining(IF i \in withUrl THEN i ELSE 0,
                         ((i - 1) % NumCenters) + 1, i = p) ] :
           withUrl \in SUBSET (1..NumTrainings), p \in 1..NumTrainings }
  /\ centers = [ c \in 1..NumCenters |-> NewCenter(c, c, 0, 0) ]
  /\ clock = 0
  /\ InitWorker
  /\ InitExtractIdle
  /\ InitNoCall
  /\ InitNoRun

SpecBacklogOfOne == InitBacklogOfOne /\ [][Next]_vars

\* ---------------------------------------------------------------------------
\* The spreadsheet export: one file (src/src/export/index.ts, variant
\* "single") or files under a size cap (src/unnamed/part_005, variant "split")
\* ---------------------------------------------------------------------------

\* sizes in units of one center row: the cap (MAX_FILE_SIZE_BYTES), an empty
\* workbook, a row of the Centres sheet, a light and a heavy row of the
\* Formations sheet
MaxFileSize == 5
WorkbookBase == 1
CenterRowSize == 1
LightRow == 1
HeavyRow == 4

\* centers per first-level chunk (DEFAULT_CENTER_CHUNK_SIZE, 500 by default)
CentersPerChunk == 2

\* the two instants a row can be created at, and the instant of --created-after
Instants == {1, 2}
CreatedAfter == 2

\* the contact fields of a center: NULL, the empty text, a blank text, a value
CleanProfile ==
  [siren |-> "x", siret |-> "x", city |-> "x", email |-> "x", phone |-> "null", website |-> "x"]

ContactProfiles ==
  { CleanProfile,
    [CleanProfile EXCEPT !.siren = "null"],
    [CleanProfile EXCEPT !.email = " "],
    [CleanProfile EXCEPT !.website = ""] }

\* the stores exported: three centers, four trainings (1 and 2 of center 1, 3
\* of center 2, 4 of center 3); a training is created with or after its center
ExportStores ==
  LET Training(centerId, createdAt, titleMatch, size) ==
        [centerId |-> centerId, createdAt |-> createdAt, titleMatch |-> titleMatch,
         size |-> size]
      candidates ==
        { [ centers |-> << [createdAt |-> a1, contact |-> k1],
                           [createdAt |-> a2, contact |-> k2],
                           [createdAt |-> 2, contact |-> CleanProfile] >>,
            trainings |-> << Training(1, b[1], m1, LightRow),
                             Training(1, b[2], TRUE, s2),
                             Training(2, b[3], m3, LightRow),
                             Training(3, 2, FALSE, LightRow) >> ] :
            a1 \in Instants, a2 \in Instants, k1 \in ContactProfiles,
            k2 \in {CleanProfile, [CleanProfile EXCEPT !.email = " "]},
            b \in [1..3 -> Instants], m1 \in BOOLEAN, m3 \in BOOLEAN,
            s2 \in {LightRow, HeavyRow} }
  IN { st \in candidates :
         \A t \in 1..4 :
           st.trainings[t].createdAt >= st.centers[st.trainings[t].centerId].createdAt }

\* createdAfter 0: no --created-after
ExportOptionSets ==
  [ includeTrainings : BOOLEAN, createdAfter : {0, CreatedAfter}, cleanOnly : BOOLEAN,
    titleFilter : BOOLEAN ]

\* isNonEmptyString: a string whose trim() is not empty
isNonEmptyString(value) == value \notin {"null", "", " "}

\* isNonEmptyString without the trim
isNonEmptyUntrimmed(value) == value \notin {"null", ""}

isCenterCleanUntrimmed(center) ==
  /\ isNonEmptyUntrimmed(center.siren) /\ isNonEmptyUntrimmed(center.siret)
  /\ isNonEmptyUntrimmed(center.city) /\ isNonEmptyUntrimmed(center.email)
  /\ (isNonEmptyUntrimmed(center.phone) \/ isNonEmptyUntrimmed(center.website))

isCenterClean(center) ==
  /\ isNonEmptyString(center.siren) /\ isNonEmptyString(center.siret)
  /\ isNonEmptyString(center.city) /\ isNonEmptyString(center.email)
  /\ (isNonEmptyString(center.phone) \/ isNonEmptyString(center.website))

\* { not: null } and { not: "" } on one column
notNullNotEmpty(value) == value # "null" /\ value # ""

buildCleanCenterWhere(center) ==
  /\ notNullNotEmpty(center.siren) /\ notNullNotEmpty(center.siret)
  /\ notNullNotEmpty(center.city) /\ notNullNotEmpty(center.email)
  /\ (notNullNotEmpty(center.phone) \/ notNullNotEmpty(center.website))

\* { createdAt: { gte: createdAfter } } when the option is given
createdAtAny(createdAt, createdAfter) == TRUE

createdAtGte(createdAt, createdAfter) == createdAfter = 0 \/ createdAt >= createdAfter

\* the where clause shared by the training queries: createdAt and clean center
trainingWhere(st, t, o) ==
  /\ createdAtGte(st.trainings[t].createdAt, o.createdAfter)
  /\ o.cleanOnly => buildCleanCenterWhere(st.centers[st.trainings[t].centerId].contact)

\* the where clause shared by the center queries
centerWhere(st, c, o) ==
  /\ o.cleanOnly => buildCleanCenterWhere(st.centers[c].contact)
  /\ createdAtGte(st.centers[c].createdAt, o.createdAfter)

\* collectTitleFilterMatches: the keyset pages over a store at rest give every
\* training the where clause admits
collectTitleFilterMatches(st, o) ==
  LET trainingIds == {t \in DOMAIN st.trainings : trainingWhere(st, t, o) /\ st.trainings[t].titleMatch}
  IN [ trainingIds |-> trainingIds,
       centerIds |-> {st.trainings[t].centerId : t \in trainingIds} ]

\* the options of a sheet; has*: the field is defined
sheetOptions(st, options) ==
  [ createdAfter |-> options.createdAfter, cleanOnly |-> options.cleanOnly,
    hasMatches |-> options.titleFilter,
    matches |-> IF options.titleFilter THEN collectTitleFilterMatches(st, options)
                ELSE [trainingIds |-> {}, centerIds |-> {}],
    hasCenterIdFilter |-> FALSE, centerIdFilter |-> {},
    hasTrainingIdsFilter |-> FALSE, trainingIdsFilter |-> {} ]

\* the ids of a sequence
idsOf(seq) == {seq[i] : i \in 1..Len(seq)}

\* the ids of a set in ascending order
RECURSIVE ascending(_)
ascending(ids) ==
  IF ids = {} THEN << >>
  ELSE LET least == CHOOSE i \in ids : \A j \in ids : i <= j
       IN <<least>> \o ascending(ids \ {least})

\* writeCentersSheet: the ids of the rows written
writeCentersSheet(st, o) ==
  LET effectiveMatchedCenterIds ==
        IF o.hasCenterIdFilter THEN o.matches.centerIds \cap o.centerIdFilter
        ELSE o.matches.centerIds
  IN IF o.hasCenterIdFilter /\ o.centerIdFilter = {} THEN {}
     ELSE IF o.hasMatches /\ effectiveMatchedCenterIds = {} THEN {}
     ELSE { c \in DOMAIN st.centers :
              /\ centerWhere(st, c, o)
              /\ IF o.hasMatches THEN c \in effectiveMatchedCenterIds
                 ELSE o.hasCenterIdFilter => c \in o.centerIdFilter
              /\ o.cleanOnly => isCenterClean(st.centers[c].contact) }

\* writeTrainingsSheet: the ids of the rows written
writeTrainingsSheet(st, o, v) ==
  LET effectiveMatchedTrainingIds ==
        IF o.hasTrainingIdsFilter THEN o.matches.trainingIds \cap o.trainingIdsFilter
        ELSE o.matches.trainingIds
      written(t) == o.cleanOnly => isCenterClean(st.centers[st.trainings[t].centerId].contact)
      inChunk(t) == o.hasCenterIdFilter => st.trainings[t].centerId \in o.centerIdFilter
  IN IF v = "single" THEN
       IF o.hasMatches
         THEN {t \in o.matches.trainingIds : written(t)}
         ELSE {t \in DOMAIN st.trainings : trainingWhere(st, t, o) /\ written(t)}
     ELSE IF \/ o.hasMatches /\ effectiveMatchedTrainingIds = {}
             \/ o.hasTrainingIdsFilter /\ o.trainingIdsFilter = {} /\ ~o.hasMatches
       THEN {}
     ELSE { t \in DOMAIN st.trainings :
              /\ IF o.hasMatches THEN t \in effectiveMatchedTrainingIds
                 ELSE o.hasTrainingIdsFilter => t \in o.trainingIdsFilter
              /\ trainingWhere(st, t, o)
              /\ inChunk(t)
              /\ written(t) }

RECURSIVE rowsSize(_, _)
rowsSize(st, trainingIds) ==
  IF trainingIds = {} THEN 0
  ELSE LET t == CHOOSE x \in trainingIds : TRUE
       IN st.trainings[t].size + rowsSize(st, trainingIds \ {t})

\* writeWorkbookToPath: the workbook written for given sheet options
writeWorkbook(st, o, includeTrainings, v) ==
  LET centerRows == writeCentersSheet(st, o)
      trainingRows == IF includeTrainings THEN writeTrainingsSheet(st, o, v) ELSE {}
  IN [ centers |-> centerRows, trainings |-> trainingRows,
       size |-> WorkbookBase + CenterRowSize * Cardinality(centerRows)
                  + rowsSize(st, trainingRows) ]

\* collectCenterIdsForExport
collectCenterIdsForExport(st, o) ==
  IF o.hasMatches THEN ascending(o.matches.centerIds)
  ELSE ascending({c \in DOMAIN st.centers : centerWhere(st, c, o)})

\* collectTrainingIdsForCenter
collectTrainingIdsForCenter(st, centerId, o) ==
  ascending({ t \in DOMAIN st.trainings :
                /\ trainingWhere(st, t, o)
                /\ o.hasMatches => t \in o.matches.trainingIds
                /\ st.trainings[t].centerId = centerId })

\* chunkArray(values, chunkSize)
RECURSIVE chunkArray(_, _)
chunkArray(values, chunkSize) ==
  IF Len(values) = 0 THEN << >>
  ELSE IF Len(values) <= chunkSize THEN <<values>>
  ELSE <<SubSeq(values, 1, chunkSize)>>
         \o chunkArray(SubSeq(values, chunkSize + 1, Len(values)), chunkSize)

\* a chunk job; hasTrainingIds: job.trainingIds is defined
ChunkJob(centerIds, hasTrainingIds, trainingIds) ==
  [centerIds |-> centerIds, hasTrainingIds |-> hasTrainingIds, trainingIds |-> trainingIds]

\* stats.size <= MAX_FILE_SIZE_BYTES
fitsAlways(size) == TRUE

fits(size) == size <= MaxFileSize

\* Math.ceil(length / 2)
mid(values) == (Len(values) + 1) \div 2

firstHalf(values) == SubSeq(values, 1, mid(values))

secondHalf(values) == SubSeq(values, mid(values) + 1, Len(values))

\* the single-file exportToExcel, whole
ExportSingle ==
  /\ res.at = "start" /\ res.variant = "single"
  /\ res' = [res EXCEPT !.at = "done",
                        !.files = <<writeWorkbook(res.store, sheetOptions(res.store, res.options),
                                                  res.options.includeTrainings, "single")>>]
  /\ UNCHANGED <<svars, wvars, xvars, args, ret, sync>>

\* the splitting exportToExcel up to its loop over the first-level chunks
ExportStart ==
  /\ res.at = "start" /\ res.variant = "split"
  /\ LET centerIds == collectCenterIdsForExport(res.store, sheetOptions(res.store, res.options))
         centerChunks == IF Len(centerIds) > 0 THEN chunkArray(centerIds, CentersPerChunk)
                         ELSE << << >> >>
     IN res' = [res EXCEPT !.at = "chunks",
                           !.jobs = [i \in 1..Len(centerChunks) |->
                                       ChunkJob(centerChunks[i], FALSE, << >>)]]
  /\ UNCHANGED <<svars, wvars, xvars, args, ret, sync>>

\* one call of exportChunkJob: the job on top is written and either kept,
\* replaced by its two halves (which run before the jobs that follow), or
\* ends the export with an error
ExportChunkJob ==
  /\ res.at = "chunks" /\ res.jobs # << >>
  /\ LET job == Head(res.jobs)
         st == res.store
         baseOptions == sheetOptions(st, res.options)
         chunkOptions == [baseOptions EXCEPT
                            !.hasCenterIdFilter = TRUE,
                            !.centerIdFilter = idsOf(job.centerIds),
                            !.hasTrainingIdsFilter = job.hasTrainingIds,
                            !.trainingIdsFilter = idsOf(job.trainingIds)]
         file == writeWorkbook(st, chunkOptions, res.options.includeTrainings, "split")
         written == [res EXCEPT !.written = @ + 1]
         halves(a, b) == [written EXCEPT !.deleted = @ + 1,
                                         !.jobs = <<a, b>> \o Tail(res.jobs)]
         failed == [written EXCEPT !.deleted = @ + 1, !.at = "failed", !.oversized = file]
     IN res' =
          IF fits(file.size)
            THEN [written EXCEPT !.files = Append(@, file), !.jobs = Tail(res.jobs)]
          ELSE IF job.hasTrainingIds /\ Len(job.trainingIds) > 1
            THEN halves(ChunkJob(job.centerIds, TRUE, firstHalf(job.trainingIds)),
                        ChunkJob(job.centerIds, TRUE, secondHalf(job.trainingIds)))
          ELSE IF Len(job.centerIds) > 1
            THEN halves(ChunkJob(firstHalf(job.centerIds), FALSE, << >>),
                        ChunkJob(secondHalf(job.centerIds), FALSE, << >>))
          ELSE IF ~res.options.includeTrainings THEN failed
          ELSE IF job.centerIds = << >> THEN failed
          ELSE LET centerId == job.centerIds[1]
                   allTrainingIds ==
                     IF job.hasTrainingIds THEN job.trainingIds
                     ELSE collectTrainingIdsForCenter(st, centerId, baseOptions)
               IN IF Len(allTrainingIds) <= 1 THEN failed
                  ELSE halves(ChunkJob(<<centerId>>, TRUE, firstHalf(allTrainingIds)),
                              ChunkJob(<<centerId>>, TRUE, secondHalf(allTrainingIds)))
  /\ UNCHANGED <<svars, wvars, xvars, args, ret, sync>>

\* the end of the splitting exportToExcel: the files of the allocator are returned
ExportReturn ==
  /\ res.at = "chunks" /\ res.jobs = << >>
  /\ res' = [res EXCEPT !.at = IF Len(res.files) = 0 THEN "failed" ELSE "done"]
  /\ UNCHANGED <<svars, wvars, xvars, args, ret, sync>>

ExportNext ==
  \/ ExportSingle
  \/ ExportStart
  \/ ExportChunkJob
  \/ ExportReturn

InitExport ==
  /\ InitEmptyStore
  /\ InitWorkerIdle
  /\ InitExtractIdle
  /\ InitNoCall
  /\ sync = [ at |-> "off" ]
  /\ res \in [ at : {"start"}, variant : {"single", "split"}, store : ExportStores,
                options : ExportOptionSets, jobs : {<< >>}, files : {<< >>},
                written : {0}, deleted : {0},
                oversized : {[centers |-> {}, trainings |-> {}, size |-> 0]} ]

SpecExport == InitExport /\ [][ExportNext]_vars

----------------------------------------------------------------------------
(* collectPageData of the offset pagination: the response listener, the
   body parsing awaited inside it, and the end of the wait *)

\* the calls of collectPageData followed, one per listing page
MaxCollectCalls == 2

\* the responses a listing page may produce during one call: the document
\* itself, and two JSON search responses (XHR and fetch)
PageResponses == 1..3

resourceTypeOf(r) == IF r = 1 THEN "document" ELSE IF r = 2 THEN "xhr" ELSE "fetch"

isJsonResponse(r) == r # 1

\* extractItemsFromPayload on the body of response r of call c: the XHR
\* carries the first two items of the page, the fetch the second and the third
responseItems(c, r) ==
  LET offset == (c - 1) * PerPage
      at(i) == apiItem(resultAt(1, offset + i))
  IN  IF r = 2 THEN <<at(1), at(2)>>
      ELSE IF r = 3 THEN <<at(2), at(3)>>
      ELSE << >>

\* the keys of the Map aggregated
aggregatedKeys(agg) == { identifyItemKey(agg[i], "offset") : i \in 1..Len(agg) }

\* the for loop of responseHandler: an item is set under its key unless the
\* Map already has the key
handlerAdds(agg, items) == agg \o aggregate(items, "offset", aggregatedKeys(agg))

\* Array.from(aggregated.values()) at the return
valuesOf(agg) == agg

NoCollect ==
  [ at |-> "idle", call |-> 0, listening |-> FALSE,
    arrived |-> [c \in 1..MaxCollectCalls |-> {}],
    received |-> [c \in 1..MaxCollectCalls |-> {}],
    parsing |-> {},
    unreadable |-> [c \in 1..MaxCollectCalls |-> {}],
    aggregated |-> [c \in 1..MaxCollectCalls |-> << >>],
    returned |-> [c \in 1..MaxCollectCalls |-> << >>],
    done |-> {} ]

\* collectPageData is called: a new Map, page.on('response', responseHandler),
\* page.goto
CollectStart ==
  /\ res.at \in {"idle", "returned"}
  /\ res.call < MaxCollectCalls
  /\ res' = [res EXCEPT !.at = "waiting", !.call = @ + 1, !.listening = TRUE]
  /\ UNCHANGED <<svars, wvars, xvars, args, ret, sync>>

\* a response event while the listener is attached: the handler returns at
\* once for another resource type or content type, otherwise it awaits
\* response.json()
ResponseArrives ==
  /\ res.listening
  /\ \E r \in PageResponses \ res.arrived[res.call] :
       LET c == res.call
           json == resourceTypeOf(r) \in {"xhr", "fetch"} /\ isJsonResponse(r)
       IN  res' = [res EXCEPT
                     !.arrived[c] = @ \cup {r},
                     !.received[c] = IF json THEN @ \cup {r} ELSE @,
                     !.parsing = IF json THEN @ \cup {<<c, r>>} ELSE @]
  /\ UNCHANGED <<svars, wvars, xvars, args, ret, sync>>

\* response.json() settles and the handler resumes, whenever that is: the
\* items go into the Map of the call the handler belongs to, or the error is
\* caught and logged
BodyParsed ==
  /\ \E h \in res.parsing, ok \in BOOLEAN :
       LET c == h[1]
           r == h[2]
       IN  res' = [res EXCEPT
                     !.parsing = @ \ {h},
                     !.unreadable[c] = IF ok THEN @ ELSE @ \cup {r},
                     !.aggregated[c] = IF ok THEN handlerAdds(@, responseItems(c, r))
                                       ELSE @]
  /\ UNCHANGED <<svars, wvars, xvars, args, ret, sync>>

\* goto has settled (or thrown, which is caught) and waitForTimeout is over:
\* page.off, then the values of the Map are returned
WaitEnds ==
  /\ res.at = "waiting"
  /\ res' = [res EXCEPT
               !.at = "returned",
               !.listening = FALSE,
               !.returned[res.call] = valuesOf(res.aggregated[res.call]),
               !.done = @ \cup {res.call}]
  /\ UNCHANGED <<svars, wvars, xvars, args, ret, sync>>

CollectNext ==
  \/ CollectStart
  \/ ResponseArrives
  \/ BodyParsed
  \/ WaitEnds

InitCollect ==
  /\ InitEmptyStore
  /\ InitWorkerIdle
  /\ InitExtractIdle
  /\ InitNoCall
  /\ sync = [ at |-> "off" ]
  /\ res = NoCollect

SpecCollect == InitCollect /\ [][CollectNext]_vars

----------------------------------------------------------------------------
(* Claims on the enrichment worker *)

\* C1: the Training row of the attempt and its owning TrainingCenter row are
\* written together or not at all: in every state the training carries the detail
\* payload of the current attempt exactly when its center carries the attempt's
\* timestamp.
AtomicEnrichment ==
  cur # 0 =>
    ( (trainings[cur].detailPageData = clock)
      <=> (centers[trainings[cur].centerId].lastDetailScrapedAt = clock) )

\* C2: the training a loop iteration selects is pending, and no other pending
\* training has an older lastDetailScrapedAt (never scraped is the oldest) or the
\* same one and a smaller id.
SelectsOldestPending ==
  pc = "process" =>
    /\ trainings[cur].needsDetail
    /\ \A j \in TrainingIds \ {cur} :
         trainings[j].needsDetail =>
           LET tc == trainings[cur].lastDetailScrapedAt
               tj == trainings[j].lastDetailScrapedAt
           IN  /\ tc = 0 \/ (tj # 0 /\ tc <= tj)
               /\ tc = tj => cur < j

\* a never-scraped training is selected while an already attempted one with a
\* smaller id is still pending
SelectsNeverScrapedFirst ==
  /\ pc = "process"
  /\ trainings[cur].lastDetailScrapedAt = 0
  /\ \E j \in TrainingIds :
       j < cur /\ trainings[j].needsDetail /\ trainings[j].lastDetailScrapedAt # 0

\* C3: when a training is attempted again, every other training that is still
\* pending has been attempted since the previous attempt on it.
FairRotation ==
  (pc = "process" /\ hist.prevNo > 0) =>
    \A j \in TrainingIds \ {cur} :
      trainings[j].needsDetail => hist.attemptNo[j] > hist.prevNo

\* a training is attempted for the second time while another one is pending
SecondAttemptAmongPending ==
  /\ pc = "process"
  /\ hist.prevNo > 0
  /\ \E j \in TrainingIds \ {cur} : trainings[j].needsDetail

\* C4: when the loop comes back to the selection after a failed navigation or
\* parse, the training is still pending, only its lastDetailScrapedAt changed,
\* this timestamp is later than that of every other pending training, and the
\* delay just taken is the penalty delay.
FailedVisitRequeued ==
  (pc = "select" /\ result = "visitFailed") =>
    /\ trainings[cur].needsDetail
    /\ trainings[cur] = [pre EXCEPT !.lastDetailScrapedAt = clock]
    /\ \A j \in TrainingIds \ {cur} :
         trainings[j].needsDetail =>
           trainings[j].lastDetailScrapedAt < trainings[cur].lastDetailScrapedAt
    /\ lastDelay = "penalty"

\* back at the selection after a failed visit, with another training pending that
\* was itself attempted before
FailedVisitAmongPending ==
  /\ pc = "select"
  /\ result = "visitFailed"
  /\ \E j \in TrainingIds \ {cur} :
       trainings[j].needsDetail /\ trainings[j].lastDetailScrapedAt # 0

\* C5 as claimed: after a failed transaction the row differs from its pre-attempt
\* state at most by needsDetail and the timestamp, and the training is not
\* selected again in the run.
FailedTxMarkedAndDropped ==
  /\ (pc = "select" /\ result \in {"marked", "retained"}) =>
       [trainings[cur] EXCEPT !.needsDetail = pre.needsDetail,
                              !.lastDetailScrapedAt = pre.lastDetailScrapedAt] = pre
  /\ pc = "process" => cur \notin hist.txFailed

\* C5 amended: after a failed transaction no content field of the row changed;
\* when the fallback update succeeded the row has needsDetail=false and a new
\* timestamp and the training is not selected again; when the fallback update failed
\* too, the row is still pending and only its timestamp changed.
FailedTxFallback ==
  /\ (pc = "select" /\ result = "marked") =>
       trainings[cur] = [pre EXCEPT !.needsDetail = FALSE, !.lastDetailScrapedAt = clock]
  /\ (pc = "select" /\ result = "retained") =>
       trainings[cur] = [pre EXCEPT !.lastDetailScrapedAt = clock]
  /\ (pc \in {"txfailed", "aborted"} /\ result = "txFailed") => trainings[cur] = pre
  /\ pc = "process" => cur \notin hist.marked

\* the transaction of a training failed after a page that yielded a price, the
\* fallback marked it, and the loop is back at the selection with work left
FailedTxMarked ==
  /\ pc = "select"
  /\ result = "marked"
  /\ cur \in hist.txFailed
  /\ pendingIds(trainings) # {}

\* C6: a training without detail URL is never navigated to; once the worker has
\* skipped it, it has needsDetail=false and is not selected again.
NoUrlSkippedForGood ==
  /\ \A i \in TrainingIds : trainings[i].detailUrl = 0 => i \notin hist.navigated
  /\ \A i \in hist.noUrl : ~trainings[i].needsDetail
  /\ pc = "process" => cur \notin hist.noUrl

\* a training is selected after another one was skipped for its missing URL
SelectsAfterNoUrlSkip ==
  /\ pc = "process"
  /\ hist.noUrl # {}
  /\ trainings[cur].detailUrl # 0

\* C7: the loop ends normally only when no training is pending or, in the bounded
\* variant, when detailBatchSize attempts were made; the bounded variant never
\* makes more attempts than that.
LoopEndsDrainedOrBatchDone ==
  /\ pc = "done" =>
       \/ pendingIds(trainings) = {}
       \/ variant = "batch" /\ processed = DetailBatchSize
  /\ variant = "batch" => processed <= DetailBatchSize

\* the bounded loop ends after detailBatchSize attempts with trainings still pending
BatchEndsWithBacklog ==
  /\ pc = "done"
  /\ variant = "batch"
  /\ processed = DetailBatchSize
  /\ pendingIds(trainings) # {}

----------------------------------------------------------------------------
(* Claims on the list extractor *)

\* C8: within one processQuery run no key is handed to persistListItem twice,
\* also when the first persist attempt of the key failed.
PersistOncePerKey ==
  \A i, j \in 1..Len(xhist.persisted) :
    i # j => xhist.persisted[i] # xhist.persisted[j]

\* an item was skipped for its key although the persist attempt of that key failed
SkippedAfterFailedPersist == xhist.skipped \cap xhist.failed # {}

\* C9: no two Training rows have the same detailUrl.
DetailUrlUnique ==
  \A i, j \in 1..Len(trainings) :
    (i # j /\ trainings[i].detailUrl # 0) =>
      trainings[i].detailUrl # trainings[j].detailUrl

\* an item whose detailUrl was already stored has updated the existing row, in a
\* store of several trainings
ExistingRowRefreshed ==
  /\ xhist.refreshed # {}
  /\ Len(trainings) >= 2

\* C10: when the incremental-reveal processQuery ends for another reason than the
\* cap, every card displayed has been handed to the dedup and persist step.
RevealHandsEveryCard ==
  (xvariant = "reveal" /\ xpc = "queryEnd" /\ xhist.reason # "cap") =>
    xhist.handed = 1..shown

\* C11: the offset-pagination processQuery fetches no page after the first page
\* that yielded no new key or fewer than pageSize items, and never more than
\* maxPagesPerQuery pages.
OffsetStopsOnStalePage ==
  xvariant = "offset" =>
    /\ xhist.stopAt # 0 => xhist.fetches = xhist.stopAt
    /\ xhist.fetches <= MaxPagesPerQuery

\* what is left of the current query: rounds up to the cap, then steps of the round
queryRank ==
  LET perRound == BatchSize + 4
      rounds == (MaxPagesPerQuery - roundIndex) * perRound
  IN  CASE xpc = "start" -> (MaxPagesPerQuery + 1) * perRound
        [] xpc = "loop" -> rounds + BatchSize + 3
        [] xpc \in {"persist", "persistRetry"} -> rounds + (Len(batch) - nextItem) + 2
        [] OTHER -> 0

\* what is left of the extraction: queries, then the current query
runRank ==
  IF xpc \in {"finished", "failed"}
    THEN 0
    ELSE (Len(searchQueries) - qi + 1) * ((MaxPagesPerQuery + 2) * (BatchSize + 4))
         + queryRank

\* C12: in the incremental-reveal loop the batch counter counts the batches
\* taken and never exceeds maxPagesPerQuery, and every step of the extraction
\* (hence every loop iteration, which ends the loop or increments the counter)
\* strictly decreases a natural number, so the loop terminates.
RevealLoopTerminates ==
  /\ [](xvariant = "reveal" =>
          /\ xpc = "loop" => roundIndex = xhist.fetches
          /\ xhist.fetches <= MaxPagesPerQuery
          /\ runRank >= 0)
  /\ [][xvariant = "reveal" => runRank' < runRank]_vars

\* the loop of a query has ended on the cap, with cards left to reveal
RevealEndsOnCap ==
  /\ xvariant = "reveal"
  /\ xpc = "queryEnd"
  /\ xhist.reason = "cap"
  /\ roundIndex = MaxPagesPerQuery
  /\ shown < MaxResults

\* C13: no navigation failure of a list round raises an error out of
\* processQuery: no query is aborted because its results never appeared.
NavigationFailureNotFatal == ~(xpc = "failed" /\ xhist.reason = "noResults")

\* C14: an error that aborts one query does not keep the following queries from
\* being started: when the extraction is over, every configured query was started.
EveryQueryStarted ==
  xpc \in {"finished", "failed"} => qi >= Len(searchQueries)

\* C16: no round fetch (navigation or click) and no first navigation of a query
\* takes place without a delay since the fetch before it.
DelayBetweenFetches == ~xhist.rushed

\* the second query has made its first navigation, after the rounds of the first
FirstNavigationOfNextQuery ==
  /\ xvariant = "reveal"
  /\ qi = 2
  /\ xpc = "loop"
  /\ xhist.fetches = 0
  /\ xhist.delayed

\* C15: the run loop of the worker is not ended by the failure of the database
\* transaction or of the timestamp update of one training.
WorkerSurvivesRecordFailures ==
  ~(pc = "aborted" /\ hist.cause \in {"transaction", "timestampUpdate"})

\* C17: after persistListItem has updated the row of an existing detailUrl, no
\* row was added and the row has needsDetail=true, the timestamp of the call, the
\* center of the item and the title and summary of the item, an absent summary
\* included.
ExistingRowOverwritten ==
  xhist.last.row # 0 =>
    LET row == trainings[xhist.last.row]
        item == xhist.last.item
    IN  /\ ~xhist.last.grew
        /\ row.needsDetail
        /\ row.lastListScrapedAt = xhist.last.at
        /\ row.centerId = xhist.last.centerId
        /\ row.listPageData = item.listPageData
        /\ row.title = item.title
        /\ row.summary = item.summary

CenterUpdatesKeepValues ==
  [][\A i \in 1..Len(centers) :
       /\ centers[i].name # 0 => centers'[i].name # 0
       /\ centers[i].normalizedName # 0 => centers'[i].normalizedName # 0
       /\ centers[i].externalId # 0 => centers'[i].externalId # 0
       /\ centers[i].city # 0 => centers'[i].city # 0
       /\ centers[i].contact # "none" => centers'[i].contact # "none"
       /\ centers[i].website # "none" => centers'[i].website # "none"
       /\ centers[i].siren # 0 => centers'[i].siren # 0
       /\ centers[i].declaredTrainers # 0 => centers'[i].declaredTrainers # 0]_vars

OneTrainingPerCenter ==
  xvariant = "reveal" =>
    \A i, j \in 1..Len(trainings) :
      trainings[i].centerId = trainings[j].centerId => i = j

\* a candidate holds a number: it is a finite number, or a text with a digit
\* whose normalized form converts
holdsNumber(value) ==
  \/ value.kind = "number"
  \/ /\ value.kind = "string"
     /\ \E i \in 1..Len(value.text) : value.text[i] \in Digits
     /\ parseNumberText(value.text).finite

numberOf(value) ==
  IF value.kind = "number" THEN value.num ELSE parseNumberText(value.text).value

\* C22: when no price candidate holds a number, pickNumber yields undefined and
\* the stored priceValue is NULL; otherwise the stored price is the first
\* candidate that holds a number, rounded to the nearest hundredth.
NoPriceStoresNull ==
  args.fn = "pickNumber" =>
    LET holders == {i \in 1..Len(args.values) : holdsNumber(args.values[i])} IN
    IF holders = {}
      THEN ~ret.priceValue.defined /\ ret.stored.null
      ELSE LET v == numberOf(args.values[CHOOSE i \in holders : \A j \in holders : i <= j])
               d == ret.stored.cents * 10 - v
           IN /\ ~ret.stored.null
              /\ d <= 5
              /\ 0 - d <= 5

\* C23: a name with a letter or a digit has a non-empty key and its center is
\* kept; when removing the legal-form tokens leaves nothing, the key is the
\* lowercased, accent-stripped name with its tokens.
NameWithLetterHasKey ==
  args.fn = "normalizeCenterName" =>
    /\ (\E i \in 1..Len(args.rawName) : args.rawName[i] \notin {" ", "&"})
         => ret.key # << >> /\ ~ret.discarded
    /\ squeeze(stripCorporateTokens(foldName(args.rawName)), TRUE) = << >>
         => ret.key = squeeze(foldName(args.rawName), TRUE)

\* C24: the website written by updateCenterInfo has at most 255 characters: a
\* value of at most 255 characters is written trimmed, a longer one as
\* scheme://host/path or, if that is longer still, as its first 255 characters,
\* which hold the whole host.
WebsiteAtMost255 ==
  args.fn = "updateCenterInfo" /\ ret.website.defined =>
    /\ ret.website.len <= MaxWebsiteLength
    /\ trimmedLen(args.website) <= MaxWebsiteLength =>
         ret.website.form = "trimmed" /\ ret.website.len = trimmedLen(args.website)
    /\ trimmedLen(args.website) > MaxWebsiteLength =>
         \/ ret.website.form = "clean"
         \/ /\ ret.website.form = "cleanCut"
            /\ ret.website.len = MaxWebsiteLength
            /\ ret.website.hostKept = args.website.hostLen

\* C25: every training references an existing center, whatever list items are
\* persisted, trainings enriched and tables cleared; a clear removes every
\* training and every center, or nothing.
EveryTrainingHasCenter ==
  /\ [](\A i \in 1..Len(trainings) : trainings[i].centerId \in 1..Len(centers))
  /\ [][args'.fn = "clearTables" /\ args' # args =>
          \/ trainings' = << >> /\ centers' = << >>
          \/ trainings' = trainings /\ centers' = centers]_vars

\* a store with trainings has been cleared
ClearedPopulatedStore ==
  /\ ret.fn = "clearTables"
  /\ ret.removed[1] > 0
  /\ ret.removed[2] > 0
  /\ trainings = << >>
  /\ centers = << >>

\* C26: when the extractor refreshes a training between the worker's selection
\* of it and the end of the worker's writes for it, the training is pending
\* (needsDetail) once the worker has finished that attempt.
ListRefreshSurvivesWorker ==
  [][(/\ args.fn = "persistListItem"
      /\ cur = args.row
      /\ processed = ret.processed
      /\ pc \in {"process", "txfailed", "finish"}
      /\ pc' \in {"select", "aborted"})
     => trainings'[args.row].needsDetail]_vars

\* C27: when runEnrichment or runExtraction is left after the browser was
\* launched, by return or by an error, the browser is closed, no page is open
\* and the store connection is released.
ResourcesReleased ==
  res.at \in {"returned", "threw"} /\ res.browser # "none" =>
    /\ res.browser = "closed"
    /\ res.pages = 0
    /\ res.db = "released"

\* C28: the record a center is updated with passes an acceptance rule: its
\* normalized denomination is the normalized center name, or (permissive
\* variant) the personal-name rule accepts it; when no record passes, no record
\* is picked and the center is not updated.
OnlyAcceptedRecordUpdates ==
  args.fn = "pickBestRecord" =>
    LET accepted ==
          exactMatches(args.centerName, args.records)
            \cup (IF args.variant = "permissive" THEN personalMatches(args.records)
                  ELSE {})
    IN /\ ret.picked # 0 => ret.picked \in accepted
       /\ accepted = {} => ret.picked = 0 /\ ~ret.updated

\* C29: the personal-name rule accepts a denomination only if one of its
\* blank-separated tokens is a civility and every name token of the center name
\* is one of its name tokens.
PersonalMatchNeedsCivilityToken ==
  args.fn = "isPersonalNameGoodMatch" /\ ret.accepted =>
    LET tokens == splitTokens(args.denomination, << >>) IN
    /\ \E i \in 1..Len(tokens) : tokens[i] \in CivilityTokens
    /\ nameTokens(args.searchName) \subseteq nameTokens(args.denomination)

\* steps one center can still take, at most
centerRank ==
  LET perSet == 2 * MaxRetries + 1
      later == (2 - sync.set) * perSet + 1
  IN CASE sync.at = "request" -> 2 * (MaxRetries - sync.attempt) + 1 + later
       [] sync.at = "delay" -> 2 * (MaxRetries - sync.attempt) + later
       [] OTHER -> 1

\* steps the pass can still take, at most
syncRank ==
  LET perCenter == 2 * (2 * MaxRetries + 1) + 2 IN
  CASE sync.at = "start" -> MaxSyncCenters * perCenter + 1
    [] sync.at \in {"request", "delay", "update"} -> (sync.left - 1) * perCenter + centerRank
    [] OTHER -> 0

\* C30: a lookup sends at most MaxRetries + 1 requests per parameter set, with a
\* delay between a failed request and the next one of the lookup; a lookup that
\* gives up does not stop the pass, which visits every selected center once and
\* ends.
RegistryLookupBounded ==
  /\ [](sync.at # "off" =>
          /\ sync.maxRequests <= MaxRetries + 1
          /\ ~sync.rushed
          /\ sync.at = "done" => sync.left = 0
          /\ syncRank >= 0)
  /\ [][sync.at \in {"start", "request", "delay", "update"} => syncRank' < syncRank]_vars

\* a lookup gave up after all its attempts and the pass went on to its end
PassEndsAfterFailedLookup ==
  /\ sync.at = "done"
  /\ sync.total >= 2
  /\ sync.gaveUp >= 1
  /\ sync.updated >= 1
  /\ sync.maxRequests = MaxRetries + 1

\* the names a command line asks for: the words after -q / --query up to the
\* next option and the whole text after --query=, split at commas and trimmed
RECURSIVE requestedNames(_)
requestedNames(argv) ==
  IF argv = << >> THEN << >>
  ELSE LET arg == Head(argv) IN
    IF arg.flag = "--query=" THEN
      normalizeQueryNames(<<wholeValueOfQueryArg(arg.text)>>) \o requestedNames(Tail(argv))
    ELSE IF arg.flag = "-q" THEN
      LET values == lookaheadValues(Tail(argv)) IN
      normalizeQueryNames(values) \o requestedNames(SubSeq(argv, 2 + Len(values), Len(argv)))
    ELSE requestedNames(Tail(argv))

\* C31: without --help, main runs exactly the configured queries whose name is
\* a requested name or starts with a requested name and a hyphen, in
\* configured order (all of them when no name is requested), and sets exit
\* code 1 without starting an extraction exactly when names were requested and
\* none resolves.
CliRunsRequestedQueries ==
  (ret.fn = "main" /\ ~ret.out.help) =>
    LET requested == requestedNames(args.argv)
        wanted(name) == \E i \in 1..Len(requested) : matchesRequested(name, requested[i])
        expected == IF requested = << >> THEN configuredNames
                    ELSE SelectSeq(configuredNames, wanted)
    IN /\ ret.out.ran = expected
       /\ (ret.out.exitCode = 1 /\ ~ret.out.started) <=> (requested # << >> /\ expected = << >>)

\* a contact field that is null, empty or blank
fieldMissing(value) == value = "null" \/ value = "" \/ value = " "

\* a center the clean filter must exclude
centerIncomplete(contact) ==
  \/ fieldMissing(contact.siren) \/ fieldMissing(contact.siret)
  \/ fieldMissing(contact.city) \/ fieldMissing(contact.email)
  \/ (fieldMissing(contact.phone) /\ fieldMissing(contact.website))

\* C32: with the clean filter, no row of the Centres sheet and no row of the
\* Formations sheet of any file written belongs to a center that lacks SIREN,
\* SIRET, city or email, or lacks both phone and website (null, empty or blank).
CleanExportOnlyCompleteCenters ==
  (res.at \in {"chunks", "done", "failed"} /\ res.options.cleanOnly) =>
    \A i \in 1..Len(res.files) :
      /\ \A c \in res.files[i].centers : ~centerIncomplete(res.store.centers[c].contact)
      /\ \A t \in res.files[i].trainings :
           ~centerIncomplete(res.store.centers[res.store.trainings[t].centerId].contact)

\* a clean export that wrote rows of both sheets while the store held a center
\* with a blank email and one with a missing SIREN, each owning a training
CleanExportSkippedCenters ==
  /\ res.at = "done" /\ res.variant = "single" /\ res.options.cleanOnly
  /\ res.options.includeTrainings /\ ~res.options.titleFilter
  /\ res.store.centers[1].contact.siren = "null"
  /\ res.store.centers[2].contact.email = " "
  /\ res.files[1].centers = {3} /\ res.files[1].trainings = {4}

\* C33: with --created-after T, every row of the Centres sheet and every row
\* of the Formations sheet written has createdAt >= T, whatever the clean and
\* the title filter.
ExportedRowsCreatedAfter ==
  (res.at \in {"chunks", "done", "failed"} /\ res.options.createdAfter # 0) =>
    \A i \in 1..Len(res.files) :
      /\ \A c \in res.files[i].centers :
           res.store.centers[c].createdAt >= res.options.createdAfter
      /\ \A t \in res.files[i].trainings :
           res.store.trainings[t].createdAt >= res.options.createdAfter

\* an export with --created-after, --clean and --title that wrote a training
\* and left out an older training of the same center whose title matches too
CreatedAfterLeftOlderRowsOut ==
  /\ res.at = "done" /\ res.variant = "single" /\ res.options.createdAfter = CreatedAfter
  /\ res.options.cleanOnly /\ res.options.titleFilter /\ res.options.includeTrainings
  /\ res.store.trainings[1].titleMatch /\ res.store.trainings[1].createdAt < CreatedAfter
  /\ res.store.centers[1].createdAt < CreatedAfter
  /\ res.files[1].trainings = {2}
  /\ res.files[1].centers = {}

\* the calls of exportChunkJob a job can still cause: itself and its halves
RECURSIVE centersJobWeight(_)
centersJobWeight(n) ==
  IF n <= 1 THEN 2 * 4
  ELSE 1 + centersJobWeight((n + 1) \div 2) + centersJobWeight(n \div 2)

jobWeight(job) ==
  IF job.hasTrainingIds
    THEN (IF Len(job.trainingIds) = 0 THEN 1 ELSE 2 * Len(job.trainingIds) - 1)
    ELSE centersJobWeight(Len(job.centerIds))

RECURSIVE jobsWeight(_)
jobsWeight(jobs) ==
  IF jobs = << >> THEN 0 ELSE jobWeight(Head(jobs)) + jobsWeight(Tail(jobs))

exportRank ==
  IF res.at = "start" THEN 2 + 2 * centersJobWeight(3)
  ELSE IF res.at = "chunks" THEN 1 + jobsWeight(res.jobs)
  ELSE 0

\* C34: every file the splitting exportToExcel keeps is within the cap; a
\* workbook over the cap is deleted and its job replaced by two halves (of
\* its centers, or of the trainings of its single center); every step lowers
\* a natural-number rank, so the recursion ends; and the export fails exactly
\* on a workbook over the cap that holds one center and at most one training
\* (or no training sheet at all).
SplitFilesWithinCap ==
  /\ [](res.at \in {"start", "chunks", "done", "failed"} /\ res.variant = "split" =>
          /\ \A i \in 1..Len(res.files) : res.files[i].size <= MaxFileSize
          /\ res.written = Len(res.files) + res.deleted
          /\ exportRank >= 0
          /\ res.at = "failed" =>
               /\ res.oversized.size > MaxFileSize
               /\ Cardinality(res.oversized.centers) <= 1
               /\ Cardinality(res.oversized.trainings) <= 1
          /\ res.at = "done" => (res.jobs = << >> /\ Len(res.files) >= 1))
  /\ [][res.variant = "split" /\ res.at \in {"start", "chunks"} => exportRank' < exportRank]_vars

\* an export that bisected by centers, then by the trainings of one center,
\* and returned three files
SplitByCentersThenTrainings ==
  /\ res.at = "done" /\ res.variant = "split" /\ res.deleted >= 2
  /\ Len(res.files) >= 3
  /\ \E i \in 1..Len(res.files), j \in 1..Len(res.files) :
       /\ i # j /\ res.files[i].centers = res.files[j].centers
       /\ res.files[i].trainings # {} /\ res.files[j].trainings # {}

\* C39: a splitting export that completes writes, over all its files, exactly
\* the training rows the single-file export writes for the same store and
\* options, each in one file only.
SplitWritesSameTrainings ==
  (res.at = "done" /\ res.variant = "split") =>
    LET expected == IF res.options.includeTrainings
                      THEN writeTrainingsSheet(res.store, sheetOptions(res.store, res.options),
                                               "single")
                      ELSE {}
    IN /\ UNION {res.files[i].trainings : i \in 1..Len(res.files)} = expected
       /\ \A i \in 1..Len(res.files), j \in 1..Len(res.files) :
            i # j => res.files[i].trainings \cap res.files[j].trainings = {}

\* the raw item at position i of the result list of the current query
rawItemAt(i) ==
  IF xvariant = "reveal" THEN cardItem(resultAt(qi, i)) ELSE apiItem(resultAt(qi, i))

\* C35: two raw items handed over in one query run that normalize to
\* different detail URLs have different keys, so the key deduplication
\* suppresses neither.
DistinctUrlsDistinctKeys ==
  \A i, j \in xhist.handed :
    LET a == rawItemAt(i)
        b == rawItemAt(j)
    IN (/\ normalizedDetailUrl(a, xvariant) # 0
        /\ normalizedDetailUrl(b, xvariant) # 0
        /\ normalizedDetailUrl(a, xvariant) # normalizedDetailUrl(b, xvariant))
         => identifyItemKey(a, xvariant) # identifyItemKey(b, xvariant)

\* C36: the unbounded worker has no retry limit: a failed visit leaves the
\* training pending, the update that follows it leaves it pending too, the
\* loop selects again whenever a training is pending, however many attempts
\* were made, and the run ends normally only when no training is pending.
NoRetryLimit ==
  /\ [](variant = "drain" /\ pc = "done" => pendingIds(trainings) = {})
  /\ [][(variant = "drain" /\ pc = "process" /\ result' = "visitFailed" /\ pc' = "finish")
          => (trainings' = trainings /\ trainings[cur].needsDetail)]_vars
  /\ [][(variant = "drain" /\ pc = "finish" /\ result = "visitFailed" /\ pc' = "select")
          => trainings'[cur].needsDetail]_vars
  /\ [][(variant = "drain" /\ pc = "select" /\ pendingIds(trainings) # {} /\ pc' # pc)
          => (pc' = "process" /\ cur' \in pendingIds(trainings))]_vars

\* the only pending training is selected for the last attempt explored after
\* every earlier attempt of the run was a failed visit of it
SelectedAgainAfterEveryFailure ==
  /\ variant = "drain" /\ pc = "process" /\ processed = MaxAttempts - 1
  /\ pendingIds(trainings) = {cur}
  /\ hist.navigated = {cur} /\ hist.txFailed = {} /\ hist.noUrl = {}
  /\ hist.prevNo = processed
  /\ hist.attemptNo[cur] > DetailMaxRetries + 1

\* C37: in the incremental-reveal processQuery, prevCount is at every loop
\* iteration the number of cards already taken from the list: each slice
\* returned by extractNewBatch holds the cards at the positions after
\* prevCount, BatchSize of them at most, so the positions taken so far are
\* 1..prevCount with none taken twice and none skipped.
SlicesFollowPrevCount ==
  xvariant = "reveal" =>
    /\ xpc = "loop" => (xhist.handed = 1..prevCount /\ prevCount <= shown)
    /\ xpc \in {"persist", "persistRetry"} =>
         /\ Len(batch) \in 1..BatchSize
         /\ prevCount + Len(batch) <= shown
         /\ batch = SubSeq(mapAllCardsToItems(qi, shown), prevCount + 1,
                           prevCount + Len(batch))
         /\ xhist.handed = 1..(prevCount + Len(batch))
         /\ roundIndex * BatchSize >= prevCount

\* a second slice taken after a click: it starts after the BatchSize cards of
\* the first one
SecondSliceTaken ==
  /\ xvariant = "reveal"
  /\ xpc \in {"persist", "persistRetry"}
  /\ prevCount = BatchSize
  /\ roundIndex = 1
  /\ Len(batch) = shown - BatchSize
  /\ shown > BatchSize + 1
  /\ batch[1] # mapAllCardsToItems(qi, shown)[1]

\* the items of the list returned by collectPageData for call c
returnedItems(c) == { res.returned[c][i] : i \in 1..Len(res.returned[c]) }

\* C38: in the offset-pagination collectPageData, every item of a JSON
\* response received before the listener was detached is in the returned list,
\* whatever the interleaving of the body parsing with the end of the wait; and
\* a response handled after the return alters neither the list of that page
\* nor the list of a later page.
ReturnedListHoldsReceivedItems ==
  /\ [](\A c \in res.done :
          \A r \in res.received[c] \ res.unreadable[c] :
            \A i \in 1..Len(responseItems(c, r)) :
              responseItems(c, r)[i] \in returnedItems(c))
  /\ [][\A h \in res.parsing :
          (h \notin res'.parsing /\ h[1] \in res.done) =>
            /\ res'.returned = res.returned
            /\ \A c \in 1..MaxCollectCalls :
                 c # h[1] => res'.aggregated[c] = res.aggregated[c]]_vars

====
